---- MODULE Spec2Model ----
(***************************************************************************)
(* A model of the aioprometheus metric aggregation engine: the label-keyed *)
(* store (metricdict.py), the Counter, Gauge, Summary and Histogram        *)
(* collectors and the Registry (collectors.py), the bucketed histogram     *)
(* (histogram.py) and the text format (formats/text.py); and of what is    *)
(* built on it: the decorators (decorators.py), the Service (service.py)   *)
(* and the ASGI MetricsMiddleware (asgi/middleware.py).                    *)
(***************************************************************************)
EXTENDS Integers, Sequences, FiniteSets, TLC

(***************************************************************************)
(* Bounds of the model.                                                    *)
(***************************************************************************)
\* number of collector calls in one behaviour
MaxOps == 3
\* longest list of upper bounds handed to a histogram
MaxBuckets == 2
\* number of threads that call add on the collectors beside the main thread
NThreads == 2

(***************************************************************************)
(* Label arguments.  A dict keeps its insertion order, so a dict argument  *)
(* is the sequence of its (name, value) items; a value is an int or a str  *)
(* and carries its text.  None and '' are the other two arguments a caller *)
(* passes for "no labels".                                                 *)
(***************************************************************************)
IntV(t) == [type |-> "int", text |-> t]
StrV(t) == [type |-> "str", text |-> t]
Item(n, v) == [name |-> n, value |-> v]

NoneLabels == [text |-> "", kind |-> "none", items |-> <<>>]
StrLabels(t) == [text |-> t, kind |-> "str", items |-> <<>>]
DictLabels(items) == [text |-> "", kind |-> "dict", items |-> items]

\* the label names of the model, in the order Python sorts them
LabelNames == <<"__not_ok", "a", "b", "job", "le", "method", "path", "quantile",
               "status_code", "z">>

NameRank(n) == CHOOSE i \in 1..Len(LabelNames) : LabelNames[i] = n

\* str.startswith("__") over the label names of the model
StartsWithDunder(n) == n \in {"__not_ok"}

EMPTY_KEY == "__EMPTY__"

RESTRICTED_LABELS_NAMES == {"job"}

\* the labels of the model that may be written to a series
AB12 == DictLabels(<<Item("a", IntV("1")), Item("b", IntV("2"))>>)
BA21 == DictLabels(<<Item("b", IntV("2")), Item("a", IntV("1"))>>)
AB13 == DictLabels(<<Item("a", IntV("1")), Item("b", IntV("3"))>>)
A1 == DictLabels(<<Item("a", IntV("1"))>>)
A1s == DictLabels(<<Item("a", StrV("1"))>>)
B1 == DictLabels(<<Item("b", IntV("1"))>>)
EmptyDict == DictLabels(<<>>)
JobX == DictLabels(<<Item("job", StrV("x"))>>)
AJob == DictLabels(<<Item("a", IntV("1")), Item("job", StrV("x"))>>)
Le1 == DictLabels(<<Item("le", IntV("1"))>>)
Dunder == DictLabels(<<Item("__not_ok", IntV("1")), Item("a", IntV("2"))>>)

\* bool(labels) of Python
Truthy(L) ==
    CASE L.kind = "none" -> FALSE
      [] L.kind = "str" -> L.text # ""
      [] OTHER -> Len(L.items) > 0

\* the set of (name, value) pairs of a label argument
Pairs(L) == {<<L.items[i].name, L.items[i].value>> : i \in 1..Len(L.items)}

(***************************************************************************)
(* json.dumps(key, sort_keys=True)                                         *)
(***************************************************************************)
JsonValue(v) == IF v.type = "str" THEN "\"" \o v.text \o "\"" ELSE v.text

JsonItem(it) == "\"" \o it.name \o "\": " \o JsonValue(it.value)

\* json.dumps without sort_keys: the items in insertion order
SortedItems_unsorted(items) == items

\* the items of a dict sorted by name (the names of a dict are distinct)
SortedItems(items) ==
    [i \in 1..Len(items) |->
        CHOOSE it \in {items[j] : j \in 1..Len(items)} :
            Cardinality({j \in 1..Len(items) :
                NameRank(items[j].name) < NameRank(it.name)}) = i - 1]

RECURSIVE JoinItems(_)
JoinItems(items) ==
    IF Len(items) = 0 THEN ""
    ELSE IF Len(items) = 1 THEN JsonItem(items[1])
    ELSE JsonItem(items[1]) \o ", " \o JoinItems(Tail(items))

JsonDumps(items) == "{" \o JoinItems(SortedItems(items)) \o "}"

(***************************************************************************)
(* MetricDict (metricdict.py)                                              *)
(***************************************************************************)
\* the dict arguments of the model
DictArgs == {AB12, BA21, AB13, A1, A1s, B1, EmptyDict, JobX, AJob, Le1, Dunder}

\* regex.match(key) for a str key: of the strings of the model, the ones
\* that json.dumps produced for a non-empty dict match r"\{.*:.*,?\}"
RegexMatch(t) == t \in {JsonDumps(L.items) : L \in {D \in DictArgs : Len(D.items) > 0}}

NoErr == [err |-> "none", msg |-> ""]

KeyTransform(L) ==
    IF ~Truthy(L) \/ (L.kind = "str" /\ L.text = EMPTY_KEY)
    THEN [err |-> "none", key |-> EMPTY_KEY]
    ELSE IF L.kind = "str" /\ RegexMatch(L.text)
    THEN [err |-> "none", key |-> L.text]
    ELSE IF L.kind # "dict"
    THEN [err |-> "TypeError", key |-> ""]
    ELSE [err |-> "none", key |-> JsonDumps(L.items)]

\* store[key] = value of a Python dict
Put(store, key, value) ==
    [k \in DOMAIN store \cup {key} |-> IF k = key THEN value ELSE store[k]]

\* MetricDict.__setitem__ that writes the value under every key
SetItem_all(store, L, value) ==
    [k \in DOMAIN store \cup {KeyTransform(L).key} |-> value]

\* MetricDict.__setitem__
SetItem(store, L, value) == Put(store, KeyTransform(L).key, value)

(***************************************************************************)
(* Collector (collectors.py)                                               *)
(***************************************************************************)
RECURSIVE CheckLabelsFrom(_, _, _)
CheckLabelsFrom(kind, items, i) ==
    IF i > Len(items) THEN NoErr
    ELSE LET k == items[i].name IN
         IF k \in RESTRICTED_LABELS_NAMES
         THEN [err |-> "ValueError", msg |-> "Invalid label name: " \o k]
         ELSE IF kind = "histogram" /\ k \in {"le"}
         THEN [err |-> "ValueError", msg |-> "Invalid label name: " \o k]
         ELSE IF StartsWithDunder(k)
         THEN [err |-> "ValueError", msg |-> "Invalid label prefix: " \o k]
         ELSE CheckLabelsFrom(kind, items, i + 1)

\* Collector._check_labels that rejects 'le' whatever the kind
CheckLabels_anykind(kind, L) ==
    IF L.kind # "dict"
    THEN [err |-> "AttributeError", msg |-> "'str' object has no attribute 'items'"]
    ELSE CheckLabelsFrom("histogram", L.items, 1)

\* Collector._check_labels: a str has no items()
CheckLabels(kind, L) ==
    IF L.kind # "dict"
    THEN [err |-> "AttributeError", msg |-> "'str' object has no attribute 'items'"]
    ELSE CheckLabelsFrom(kind, L.items, 1)

\* Collector.set_value: the outcome and the store it leaves
SetValue(kind, store, L, value) ==
    LET chk == IF Truthy(L) THEN CheckLabels(kind, L) ELSE NoErr IN
    IF chk.err # "none" THEN [err |-> chk.err, msg |-> chk.msg, store |-> store]
    ELSE IF KeyTransform(L).err # "none"
    THEN [err |-> KeyTransform(L).err, msg |-> "Only accepts dicts as keys", store |-> store]
    ELSE [err |-> "none", msg |-> "", store |-> SetItem(store, L, value)]

\* Collector.get_value: the outcome; found tells KeyError from a value
GetValue(store, L) ==
    LET kt == KeyTransform(L) IN
    IF kt.err # "none" THEN [err |-> kt.err, msg |-> "Only accepts dicts as keys", found |-> FALSE]
    ELSE IF kt.key \notin DOMAIN store THEN [err |-> "KeyError", msg |-> kt.key, found |-> FALSE]
    ELSE [err |-> "none", msg |-> "", found |-> TRUE]

\* the value get_value returns when it returns
Stored(store, L) == store[KeyTransform(L).key]

(***************************************************************************)
(* State                                                                   *)
(***************************************************************************)
VARIABLES
    counter_values,     \* Counter.values.store: key -> number
    gauge_values,       \* Gauge.values.store: key -> number
    summary_values,     \* Summary.values.store: key -> estimator
    histogram_values,   \* Histogram.values.store: key -> histogram.Histogram
    key_order,          \* per collector: the keys of values.store in insertion order
    upper_bounds,       \* Histogram.upper_bounds
    const_labels,       \* per collector: Collector.const_labels
    collectors,         \* Registry.collectors of the default registry, in insertion order
    last,               \* the last call and how it ended
    ledger,             \* per (collector, label set): last value set and the deltas since
    ncalls,             \* per (collector, label set): successful observations
    nops,               \* calls made so far
    threads,            \* per thread: where its call of add stands, and its locals
    tasks,              \* per invocation of a decorated callable: where it stands
    service,            \* the fields of the Service and whether its site listens
    middleware          \* the counters of the MetricsMiddleware and the requests in flight

stores == <<counter_values, gauge_values, summary_values, histogram_values, key_order>>

\* what no call on a collector changes
rest == <<upper_bounds, const_labels, collectors>>

\* nops, which every call changes, comes first
vars == <<nops, counter_values, gauge_values, summary_values, histogram_values, key_order,
          upper_bounds, const_labels, collectors, last, ledger, ncalls, threads,
          tasks, service, middleware>>

\* values.store of a collector
ValuesOf(coll) ==
    CASE coll = "counter" -> counter_values
      [] coll = "gauge" -> gauge_values
      [] coll = "summary" -> summary_values
      [] coll = "histogram" -> histogram_values

\* values.store of one collector becomes store
SetValuesOf(coll, store) ==
    /\ counter_values' = IF coll = "counter" THEN store ELSE counter_values
    /\ gauge_values' = IF coll = "gauge" THEN store ELSE gauge_values
    /\ summary_values' = IF coll = "summary" THEN store ELSE summary_values
    /\ histogram_values' = IF coll = "histogram" THEN store ELSE histogram_values

\* a dict that moves a key written again to the end
Inserted_moved(coll, old, new) ==
    [key_order EXCEPT ![coll] =
        IF DOMAIN new = DOMAIN old
        THEN IF new = old THEN @
             ELSE LET k == CHOOSE x \in DOMAIN new : new[x] # old[x] IN
                  Append(SelectSeq(@, LAMBDA y : y # k), k)
        ELSE Append(@, CHOOSE k \in DOMAIN new \ DOMAIN old : TRUE)]

\* a dict keeps the order in which its keys were inserted; writing an
\* existing key keeps its place
Inserted(coll, old, new) ==
    [key_order EXCEPT ![coll] =
        IF DOMAIN new = DOMAIN old THEN @
        ELSE Append(@, CHOOSE k \in DOMAIN new \ DOMAIN old : TRUE)]

EmptyStore == [k \in {} |-> 0]

\* one more step was made: what it was and how it ended
Record(coll, op, L, value, err, msg, ret) ==
    /\ nops < MaxOps
    /\ nops' = nops + 1
    /\ last' = [value |-> value, err |-> err, msg |-> msg, coll |-> coll,
                op |-> op, ret |-> ret, labels |-> L]

\* a call on a collector, the registry or the formatter
Call(coll, op, L, value, err, msg, ret) ==
    /\ Record(coll, op, L, value, err, msg, ret)
    /\ UNCHANGED <<threads, tasks, service, middleware>>

\* the ledger entry of a label set (the last value set, the sum and the number
\* of the deltas since): 0 and no deltas when it was never written
Entry(coll, L) ==
    IF <<coll, Pairs(L)>> \in DOMAIN ledger THEN ledger[<<coll, Pairs(L)>>]
    ELSE [n |-> 0, base |-> 0, incs |-> 0]

\* a set or an add of the label set succeeded
Written(coll, L) == <<coll, Pairs(L)>> \in DOMAIN ledger

LedgerSet(coll, L, value) ==
    ledger' = Put(ledger, <<coll, Pairs(L)>>, [n |-> 0, base |-> value, incs |-> 0])

LedgerAdd(coll, L, value) ==
    ledger' = Put(ledger, <<coll, Pairs(L)>>,
                  [n |-> Entry(coll, L).n + 1, base |-> Entry(coll, L).base,
                   incs |-> Entry(coll, L).incs + value])

(***************************************************************************)
(* Counter                                                                 *)
(***************************************************************************)
\* Counter.add that overwrites the series instead of adding to it
Counter_add_overwrite(store, L, value) ==
    IF value < 0
    THEN [err |-> "ValueError", msg |-> "Counters can't decrease", store |-> store]
    ELSE SetValue("counter", store, L, value)

\* Counter.add that checks the sign after it has stored the sum
Counter_add_latecheck(store, L, value) ==
    LET current == IF GetValue(store, L).found THEN Stored(store, L) ELSE 0
        s == SetValue("counter", store, L, current + value)
    IN IF s.err = "none" /\ value < 0
       THEN [err |-> "ValueError", msg |-> "Counters can't decrease", store |-> s.store]
       ELSE s

\* Counter.add without the sign check
Counter_add_nocheck(store, L, value) ==
    LET current == IF GetValue(store, L).found THEN Stored(store, L) ELSE 0
    IN SetValue("counter", store, L, current + value)

\* Counter.add: the outcome and the store it leaves
Counter_add(store, L, value) ==
    IF value < 0
    THEN [err |-> "ValueError", msg |-> "Counters can't decrease", store |-> store]
    ELSE LET g == GetValue(store, L) IN
         IF g.err \notin {"none", "KeyError"}
         THEN [err |-> g.err, msg |-> g.msg, store |-> store]
         ELSE LET current == IF g.found THEN Stored(store, L) ELSE 0 IN
              SetValue("counter", store, L, current + value)

CounterGet(L) ==
    LET g == GetValue(counter_values, L) IN
    /\ Call("counter", "get", L, 0, g.err, g.msg,
            IF g.found THEN <<Stored(counter_values, L)>> ELSE <<>>)
    /\ UNCHANGED <<stores, rest, ledger, ncalls>>

CounterSet(L, value) ==
    LET r == SetValue("counter", counter_values, L, value) IN
    /\ Call("counter", "set", L, value, r.err, r.msg, <<>>)
    /\ counter_values' = r.store
    /\ key_order' = Inserted("counter", counter_values, r.store)
    /\ IF r.err = "none" THEN LedgerSet("counter", L, value) ELSE UNCHANGED ledger
    /\ UNCHANGED <<gauge_values, summary_values, histogram_values, rest, ncalls>>

CounterInc(L) ==
    LET r == Counter_add(counter_values, L, 1) IN
    /\ Call("counter", "inc", L, 1, r.err, r.msg, <<>>)
    /\ counter_values' = r.store
    /\ key_order' = Inserted("counter", counter_values, r.store)
    /\ IF r.err = "none" THEN LedgerAdd("counter", L, 1) ELSE UNCHANGED ledger
    /\ UNCHANGED <<gauge_values, summary_values, histogram_values, rest, ncalls>>

CounterAdd(L, value) ==
    LET r == Counter_add(counter_values, L, value) IN
    /\ Call("counter", "add", L, value, r.err, r.msg, <<>>)
    /\ counter_values' = r.store
    /\ key_order' = Inserted("counter", counter_values, r.store)
    /\ IF r.err = "none" THEN LedgerAdd("counter", L, value) ELSE UNCHANGED ledger
    /\ UNCHANGED <<gauge_values, summary_values, histogram_values, rest, ncalls>>

(***************************************************************************)
(* Gauge                                                                   *)
(***************************************************************************)
\* Gauge.add that forgets the current value
Gauge_add_lost(store, L, value) == SetValue("gauge", store, L, value)

\* Gauge.add: the outcome and the store it leaves
Gauge_add(store, L, value) ==
    LET g == GetValue(store, L) IN
    IF g.err \notin {"none", "KeyError"}
    THEN [err |-> g.err, msg |-> g.msg, store |-> store]
    ELSE LET current == IF g.found THEN Stored(store, L) ELSE 0 IN
         SetValue("gauge", store, L, current + value)

GaugeGet(L) ==
    LET g == GetValue(gauge_values, L) IN
    /\ Call("gauge", "get", L, 0, g.err, g.msg,
            IF g.found THEN <<Stored(gauge_values, L)>> ELSE <<>>)
    /\ UNCHANGED <<stores, rest, ledger, ncalls>>

GaugeSet(L, value) ==
    LET r == SetValue("gauge", gauge_values, L, value) IN
    /\ Call("gauge", "set", L, value, r.err, r.msg, <<>>)
    /\ gauge_values' = r.store
    /\ key_order' = Inserted("gauge", gauge_values, r.store)
    /\ IF r.err = "none" THEN LedgerSet("gauge", L, value) ELSE UNCHANGED ledger
    /\ UNCHANGED <<counter_values, summary_values, histogram_values, rest, ncalls>>

GaugeUpdate(op, L, value, delta) ==
    LET r == Gauge_add(gauge_values, L, delta) IN
    /\ Call("gauge", op, L, value, r.err, r.msg, <<>>)
    /\ gauge_values' = r.store
    /\ key_order' = Inserted("gauge", gauge_values, r.store)
    /\ IF r.err = "none" THEN LedgerAdd("gauge", L, delta) ELSE UNCHANGED ledger
    /\ UNCHANGED <<counter_values, summary_values, histogram_values, rest, ncalls>>

GaugeInc(L) == GaugeUpdate("inc", L, 1, 1)

GaugeDec(L) == GaugeUpdate("dec", L, 1, -1)

GaugeAdd(L, value) == GaugeUpdate("add", L, value, value)

\* Gauge.sub is add(labels, -value)
GaugeSub(L, value) == GaugeUpdate("sub", L, value, -value)

(***************************************************************************)
(* Floats.  An observation and an upper bound are Python floats: a number, *)
(* +Inf, -Inf or NaN.  An argument that is neither float nor int (a str, a *)
(* bool, None) has another kind.                                           *)
(***************************************************************************)
Num(n) == [n |-> n, k |-> "num"]
POS_INF == [n |-> 0, k |-> "inf"]
NEG_INF == [n |-> 0, k |-> "ninf"]
NaN == [n |-> 0, k |-> "nan"]
StrValue == [n |-> 0, k |-> "str"]
\* True: type(True) is bool
BoolValue == [n |-> 1, k |-> "bool"]
\* an int beyond the range of a float, such as 10 ** 400
BigInt == [n |-> 0, k |-> "big"]

\* type(value) in (float, int)
IsFloatOrInt(x) == x.k \in {"num", "inf", "ninf", "nan", "big"}

\* float(value) of a float or an int: OverflowError for an int beyond the range
ToFloat(x) ==
    IF x.k = "big"
    THEN [err |-> "OverflowError", msg |-> "int too large to convert to float"]
    ELSE NoErr

\* a <= b of IEEE 754: false whenever one side is NaN
Leq(a, b) ==
    CASE a.k = "nan" \/ b.k = "nan" -> FALSE
      [] a.k = "ninf" \/ b.k = "inf" -> TRUE
      [] a.k = "inf" \/ b.k = "ninf" -> FALSE
      [] OTHER -> a.n <= b.n

Lt(a, b) == Leq(a, b) /\ a # b

\* a + b of IEEE 754
FAdd(a, b) ==
    CASE a.k = "nan" \/ b.k = "nan" -> NaN
      [] a.k = "inf" -> IF b.k = "ninf" THEN NaN ELSE POS_INF
      [] a.k = "ninf" -> IF b.k = "inf" THEN NaN ELSE NEG_INF
      [] b.k \in {"inf", "ninf"} -> b
      [] OTHER -> Num(a.n + b.n)

\* sorted(seq): a stable insertion of each element after the ones not above it
RECURSIVE Sorted(_)
Sorted(seq) ==
    IF Len(seq) = 0 THEN <<>>
    ELSE LET front == Sorted(SubSeq(seq, 1, Len(seq) - 1))
             x == seq[Len(seq)]
             n == Cardinality({i \in 1..Len(front) : ~Lt(x, front[i])})
         IN SubSeq(front, 1, n) \o <<x>> \o SubSeq(front, n + 1, Len(front))

(***************************************************************************)
(* histogram.Histogram (histogram.py)                                      *)
(***************************************************************************)
\* the keys of OrderedDict([(b, 0) for b in _buckets]): a repeated bound is one key
RECURSIVE DistinctKeys(_)
DistinctKeys(seq) ==
    IF Len(seq) = 0 THEN <<>>
    ELSE LET front == DistinctKeys(SubSeq(seq, 1, Len(seq) - 1))
             x == seq[Len(seq)]
         IN IF \E i \in 1..Len(front) : front[i] = x THEN front ELSE Append(front, x)

\* a normalization that appends +Inf whatever the last bound is
Normalized_always(buckets) == Append(buckets, POS_INF)

\* _buckets after "if _buckets and _buckets[-1] != POS_INF: append(POS_INF)"
Normalized(buckets) ==
    IF Len(buckets) > 0 /\ buckets[Len(buckets)] # POS_INF
    THEN Append(buckets, POS_INF)
    ELSE buckets

\* Histogram.__init__ without the check of the order
NewHistogram_nosort(buckets) ==
    IF Len(Normalized(buckets)) < 2
    THEN [err |-> "ValueError", msg |-> "Must have at least two buckets", h |-> <<>>]
    ELSE LET keys == DistinctKeys(Normalized(buckets)) IN
         [err |-> "none", msg |-> "",
          h |-> [bounds |-> keys, counts |-> [i \in 1..Len(keys) |-> 0],
                 observations |-> 0, sum |-> Num(0)]]

\* Histogram.__init__: the outcome and the object it builds
NewHistogram(buckets) ==
    IF buckets # Sorted(buckets)
    THEN [err |-> "ValueError", msg |-> "Buckets not in sorted order", h |-> <<>>]
    ELSE IF Len(Normalized(buckets)) < 2
    THEN [err |-> "ValueError", msg |-> "Must have at least two buckets", h |-> <<>>]
    ELSE LET keys == DistinctKeys(Normalized(buckets)) IN
         [err |-> "none", msg |-> "",
          h |-> [bounds |-> keys, counts |-> [i \in 1..Len(keys) |-> 0],
                 observations |-> 0, sum |-> Num(0)]]

\* Histogram.observe that counts the value in its first bucket only
Observe_first(h, value) ==
    [bounds |-> h.bounds,
     counts |-> [i \in 1..Len(h.bounds) |->
                    IF /\ Leq(value, h.bounds[i])
                       /\ \A j \in 1..(i - 1) : ~Leq(value, h.bounds[j])
                    THEN h.counts[i] + 1 ELSE h.counts[i]],
     observations |-> h.observations + 1,
     sum |-> FAdd(h.sum, value)]

\* Histogram.observe
Observe(h, value) ==
    [bounds |-> h.bounds,
     counts |-> [i \in 1..Len(h.bounds) |->
                    IF Leq(value, h.bounds[i]) THEN h.counts[i] + 1 ELSE h.counts[i]],
     observations |-> h.observations + 1,
     sum |-> FAdd(h.sum, value)]

(***************************************************************************)
(* Histogram collector                                                     *)
(***************************************************************************)
Calls(coll, L) ==
    IF <<coll, Pairs(L)>> \in DOMAIN ncalls THEN ncalls[<<coll, Pairs(L)>>] ELSE 0

CountCall(coll, L) == ncalls' = Put(ncalls, <<coll, Pairs(L)>>, Calls(coll, L) + 1)

\* Histogram.add that stores a new histogram without the observation
Histogram_add_unobserved(store, bounds, L, value) ==
    IF ~IsFloatOrInt(value)
    THEN [err |-> "TypeError", msg |-> "Histogram only works with digits (int, float)",
          store |-> store]
    ELSE IF GetValue(store, L).found
    THEN [err |-> "none", msg |-> "",
          store |-> SetItem(store, L, Observe(Stored(store, L), value))]
    ELSE IF NewHistogram(bounds).err # "none"
    THEN [err |-> NewHistogram(bounds).err, msg |-> NewHistogram(bounds).msg, store |-> store]
    ELSE SetValue("histogram", store, L, NewHistogram(bounds).h)

\* Histogram.add: the outcome and the store it leaves
Histogram_add(store, bounds, L, value) ==
    IF ~IsFloatOrInt(value)
    THEN [err |-> "TypeError", msg |-> "Histogram only works with digits (int, float)",
          store |-> store]
    ELSE LET g == GetValue(store, L) IN
         IF g.err \notin {"none", "KeyError"}
         THEN [err |-> g.err, msg |-> g.msg, store |-> store]
         ELSE IF g.found
         THEN IF ToFloat(value).err # "none"
              THEN [err |-> ToFloat(value).err, msg |-> ToFloat(value).msg, store |-> store]
              ELSE [err |-> "none", msg |-> "",
                    store |-> SetItem(store, L, Observe(Stored(store, L), value))]
         ELSE LET new == NewHistogram(bounds) IN
              IF new.err # "none"
              THEN [err |-> new.err, msg |-> new.msg, store |-> store]
              ELSE LET s == SetValue("histogram", store, L, new.h) IN
                   IF s.err # "none" THEN s
                   \* the new histogram is stored before float(value) is computed
                   ELSE IF ToFloat(value).err # "none"
                   THEN [err |-> ToFloat(value).err, msg |-> ToFloat(value).msg,
                         store |-> s.store]
                   ELSE [err |-> "none", msg |-> "",
                         store |-> SetItem(s.store, L, Observe(Stored(s.store, L), value))]

HistogramObserve(L, value) ==
    LET r == Histogram_add(histogram_values, upper_bounds, L, value) IN
    /\ Call("histogram", "observe", L, value, r.err, r.msg, <<>>)
    /\ histogram_values' = r.store
    /\ key_order' = Inserted("histogram", histogram_values, r.store)
    /\ IF r.err = "none" THEN CountCall("histogram", L) ELSE UNCHANGED ncalls
    /\ UNCHANGED <<counter_values, gauge_values, summary_values, rest, ledger>>

\* Histogram.get: the buckets in their order, then count and sum
Histogram_get(h) ==
    [bounds |-> h.bounds, counts |-> h.counts, sum |-> h.sum, count |-> h.observations]

HistogramGet(L) ==
    LET g == GetValue(histogram_values, L) IN
    /\ Call("histogram", "get", L, Num(0), g.err, g.msg,
            IF g.found THEN <<Histogram_get(Stored(histogram_values, L))>> ELSE <<>>)
    /\ UNCHANGED <<stores, rest, ledger, ncalls>>

(***************************************************************************)
(* Summary collector.  The estimator is quantile.Estimator; the model      *)
(* keeps the two fields Summary.get reads for count and sum.               *)
(***************************************************************************)
NewEstimator == [observations |-> 0, sum |-> Num(0)]

EstimatorObserve(e, value) ==
    [observations |-> e.observations + 1, sum |-> FAdd(e.sum, value)]

\* Summary.add: the outcome and the store it leaves
Summary_add(store, L, value) ==
    IF ~IsFloatOrInt(value)
    THEN [err |-> "TypeError", msg |-> "Summary only works with digits (int, float)",
          store |-> store]
    ELSE LET g == GetValue(store, L) IN
         IF g.err \notin {"none", "KeyError"}
         THEN [err |-> g.err, msg |-> g.msg, store |-> store]
         ELSE IF g.found
         THEN IF ToFloat(value).err # "none"
              THEN [err |-> ToFloat(value).err, msg |-> ToFloat(value).msg, store |-> store]
              ELSE [err |-> "none", msg |-> "",
                    store |-> SetItem(store, L, EstimatorObserve(Stored(store, L), value))]
         ELSE LET s == SetValue("summary", store, L, NewEstimator) IN
              IF s.err # "none" THEN s
              \* the new estimator is stored before float(value) is computed
              ELSE IF ToFloat(value).err # "none"
              THEN [err |-> ToFloat(value).err, msg |-> ToFloat(value).msg, store |-> s.store]
              ELSE [err |-> "none", msg |-> "",
                    store |-> SetItem(s.store, L, EstimatorObserve(Stored(s.store, L), value))]

SummaryObserve(L, value) ==
    LET r == Summary_add(summary_values, L, value) IN
    /\ Call("summary", "observe", L, value, r.err, r.msg, <<>>)
    /\ summary_values' = r.store
    /\ key_order' = Inserted("summary", summary_values, r.store)
    /\ IF r.err = "none" THEN CountCall("summary", L) ELSE UNCHANGED ncalls
    /\ UNCHANGED <<counter_values, gauge_values, histogram_values, rest, ledger>>

\* Summary.get: count and sum of the series
Summary_get(e) == [sum |-> e.sum, count |-> e.observations]

SummaryGet(L) ==
    LET g == GetValue(summary_values, L) IN
    /\ Call("summary", "get", L, Num(0), g.err, g.msg,
            IF g.found THEN <<Summary_get(Stored(summary_values, L))>> ELSE <<>>)
    /\ UNCHANGED <<stores, rest, ledger, ncalls>>

(***************************************************************************)
(* Threads.  Counter.add and Gauge.add read the series with get_value and   *)
(* write it with set_value; neither the collectors nor MetricDict hold a   *)
(* lock, so the calls of two threads interleave between the two steps.     *)
(***************************************************************************)
Threads == 1..NThreads

Idle == [value |-> 0, coll |-> "", current |-> 0, pc |-> "idle"]

\* the labels every thread passes
ThreadLabels == A1

\* a thread enters add(labels, value): the sign check of a Counter, then
\* current = get_value(labels), 0 on KeyError
ThreadRead(t, coll, value) ==
    /\ threads[t].pc = "idle"
    /\ threads' = [threads EXCEPT ![t] =
          IF coll = "counter" /\ value < 0
          THEN [value |-> value, coll |-> coll, current |-> 0, pc |-> "raised"]
          ELSE [value |-> value, coll |-> coll, current |-> IF GetValue(ValuesOf(coll), ThreadLabels).found
                            THEN Stored(ValuesOf(coll), ThreadLabels) ELSE 0,
                pc |-> "read"]]
    /\ UNCHANGED <<stores, rest, last, ledger, ncalls, nops, tasks, service, middleware>>

\* the thread goes on to set_value(labels, current + value) and returns
ThreadWrite(t) ==
    LET th == threads[t]
        r == SetValue(th.coll, ValuesOf(th.coll), ThreadLabels, th.current + th.value)
    IN  /\ th.pc = "read"
        /\ SetValuesOf(th.coll, r.store)
        /\ key_order' = Inserted(th.coll, ValuesOf(th.coll), r.store)
        /\ threads' = [threads EXCEPT ![t].pc = "done"]
        /\ UNCHANGED <<rest, last, ledger, ncalls, nops, tasks, service, middleware>>

(***************************************************************************)
(* Specifications                                                          *)
(***************************************************************************)
InitBuckets == <<Num(1), Num(2)>>

\* no decorated callable was invoked yet
NoTasks == <<>>

\* Service.__init__
NewService == [site |-> "None", app |-> "None", runner |-> "None", https |-> "None",
               metrics_url |-> "None", listening |-> FALSE]

\* MetricsMiddleware.__init__: four counters without series, no request in flight
NewMiddleware == [requests |-> EmptyStore, responses |-> EmptyStore,
                  exceptions |-> EmptyStore, status_codes |-> EmptyStore,
                  group_status_codes |-> FALSE, inflight |-> <<>>]

\* the four collectors of the model, each constructed with the default registry
Kinds == {"counter", "gauge", "summary", "histogram"}
CounterObj == [name |-> "test_counter", kind |-> "counter", id |-> "counter"]
GaugeObj == [name |-> "test_gauge", kind |-> "gauge", id |-> "gauge"]
SummaryObj == [name |-> "test_summary", kind |-> "summary", id |-> "summary"]
HistogramObj == [name |-> "test_histogram", kind |-> "histogram", id |-> "histogram"]

NoCall == [value |-> 0, err |-> "none", msg |-> "", coll |-> "",
           op |-> "init", ret |-> <<>>, labels |-> NoneLabels]

\* the state after the four collectors are constructed with the given buckets
\* and const_labels
InitConst(buckets, CL) ==
    /\ counter_values = EmptyStore
    /\ gauge_values = EmptyStore
    /\ summary_values = EmptyStore
    /\ histogram_values = EmptyStore
    /\ key_order = [c \in Kinds |-> <<>>]
    /\ upper_bounds = buckets
    /\ const_labels = [c \in Kinds |-> CL]
    /\ collectors = <<CounterObj, GaugeObj, SummaryObj, HistogramObj>>
    /\ last = NoCall
    /\ ledger = EmptyStore
    /\ ncalls = EmptyStore
    /\ nops = 0
    /\ threads = [t \in Threads |-> Idle]
    /\ tasks = NoTasks
    /\ service = NewService
    /\ middleware = NewMiddleware

\* the state after the four collectors are constructed without const_labels
InitWith(buckets) == InitConst(buckets, EmptyDict)

Init == InitWith(InitBuckets)

\* label arguments and values of the calls
CounterLabels == {NoneLabels, AB12, BA21, JobX}
CounterAddValues == {-1, 0, 2}
CounterSetValues == {-1, 3}

NextCounter ==
    \/ \E L \in CounterLabels : CounterGet(L)
    \/ \E L \in CounterLabels, v \in CounterSetValues : CounterSet(L, v)
    \/ \E L \in CounterLabels : CounterInc(L)
    \/ \E L \in CounterLabels, v \in CounterAddValues : CounterAdd(L, v)

SpecCounter == Init /\ [][NextCounter]_vars

GaugeLabels == {NoneLabels, AB12, BA21, JobX}
GaugeValues == {-2, 3}

NextGauge ==
    \/ \E L \in GaugeLabels : GaugeGet(L)
    \/ \E L \in GaugeLabels, v \in GaugeValues : GaugeSet(L, v)
    \/ \E L \in GaugeLabels : GaugeInc(L)
    \/ \E L \in GaugeLabels : GaugeDec(L)
    \/ \E L \in GaugeLabels, v \in GaugeValues : GaugeAdd(L, v)
    \/ \E L \in GaugeLabels, v \in GaugeValues : GaugeSub(L, v)

SpecGauge == Init /\ [][NextGauge]_vars

\* every way the model writes "no labels" and a few label sets
KeyLabels == {NoneLabels, StrLabels(""), EmptyDict, AB12, BA21, AB13, A1, A1s, B1, AJob}
KeyValues == {1, 2}

NextKey ==
    \/ \E L \in KeyLabels : GaugeGet(L)
    \/ \E L \in KeyLabels, v \in KeyValues : GaugeSet(L, v)

SpecKey == Init /\ [][NextKey]_vars

\* every list of at most MaxBuckets upper bounds over 1, 2 and +Inf
BoundValues == {Num(1), Num(2), POS_INF}
BucketLists == UNION {[1..n -> BoundValues] : n \in 0..MaxBuckets}

InitHistogram == \E buckets \in BucketLists : InitWith(buckets)

ObserveLabels == {NoneLabels, AB12, BA21, Le1}
ObserveValues == {Num(1), Num(2), POS_INF, NaN, StrValue}

NextHistogram ==
    \/ \E L \in ObserveLabels, v \in ObserveValues : HistogramObserve(L, v)
    \/ \E L \in ObserveLabels : HistogramGet(L)

SpecHistogram == InitHistogram /\ [][NextHistogram]_vars

NextObserve ==
    \/ \E L \in ObserveLabels, v \in ObserveValues : HistogramObserve(L, v)
    \/ \E L \in ObserveLabels : HistogramGet(L)
    \/ \E L \in ObserveLabels, v \in ObserveValues : SummaryObserve(L, v)
    \/ \E L \in ObserveLabels : SummaryGet(L)

SpecObserve == Init /\ [][NextObserve]_vars

(***************************************************************************)
(* Text format (formats/base.py, formats/text.py), timestamps off.  A line *)
(* is kept with its name and its labels beside its text.                   *)
(***************************************************************************)
\* '{}'.format of an int
IntText(n) == ToString(n)

\* str of a float
FloatText(x) ==
    CASE x.k = "num" -> ToString(x.n) \o ".0"
      [] x.k = "inf" -> "inf"
      [] x.k = "ninf" -> "-inf"
      [] OTHER -> "nan"

\* the le label of a bucket
BoundText(b) ==
    IF b = POS_INF THEN "+Inf" ELSE IF b = NEG_INF THEN "-Inf" ELSE FloatText(b)

\* json decoder.decode(k) of a key json.dumps made: the items in the order of the text
DecodeKey(k) ==
    IF k = EMPTY_KEY THEN <<>>
    ELSE SortedItems((CHOOSE D \in DictArgs : JsonDumps(D.items) = k).items)

ItemNames(items) == {items[i].name : i \in 1..Len(items)}

ItemValue(items, n) == (CHOOSE it \in {items[i] : i \in 1..Len(items)} : it.name = n).value

\* d[k] = v for every item of labels, on a copy of const
Override(const, labels) ==
    [i \in 1..Len(const) |->
        IF const[i].name \in ItemNames(labels)
        THEN Item(const[i].name, ItemValue(labels, const[i].name)) ELSE const[i]]
    \o SelectSeq(labels, LAMBDA it : it.name \notin ItemNames(const))

\* IFormatter._unify_labels that lets the const label win
UnifyLabels_constwins(labels, const) ==
    LET result == IF Len(const) > 0
                  THEN IF Len(labels) > 0 THEN Override(labels, const) ELSE const
                  ELSE labels
    IN  IF Len(result) > 0 THEN SortedItems(result) ELSE result

\* IFormatter._unify_labels with ordered=True
UnifyLabels(labels, const) ==
    LET result == IF Len(const) > 0
                  THEN IF Len(labels) > 0 THEN Override(const, labels) ELSE const
                  ELSE labels
    IN  IF Len(result) > 0 THEN SortedItems(result) ELSE result

\* LABEL_FMT joined by LABEL_SEPARATOR_FMT
RECURSIVE JoinLabels(_)
JoinLabels(items) ==
    IF Len(items) = 0 THEN ""
    ELSE items[1].name \o "=\"" \o items[1].value.text \o "\""
         \o (IF Len(items) = 1 THEN "" ELSE "," \o JoinLabels(Tail(items)))

LabelsStr(items) == IF Len(items) = 0 THEN "" ELSE "{" \o JoinLabels(items) \o "}"

\* TextFormatter._format_line: METRIC_FMT with an empty timestamp, stripped
FormatLine(name, labels, value, const) ==
    LET unified == UnifyLabels(labels, const) IN
    [text |-> name \o LabelsStr(unified) \o " " \o value, name |-> name, value |-> value,
     labels |-> unified]

\* the items of the OrderedDict Summary.get returns: a quantile key is a
\* float, and its value is what quantile.Estimator.query returns
Summary_get_items(e) ==
    <<[value |-> "query(0.5)", key |-> "0.5", float |-> TRUE],
      [value |-> "query(0.9)", key |-> "0.9", float |-> TRUE],
      [value |-> "query(0.99)", key |-> "0.99", float |-> TRUE],
      [value |-> IntText(e.observations), key |-> "count", float |-> FALSE],
      [value |-> FloatText(e.sum), key |-> "sum", float |-> FALSE]>>

\* Histogram.get that puts the sum before the count
Histogram_get_items_sumfirst(h) ==
    [i \in 1..Len(h.bounds) |->
        [value |-> FloatText(Num(h.counts[i])), key |-> BoundText(h.bounds[i]), float |-> TRUE]]
    \o <<[value |-> FloatText(h.sum), key |-> "sum", float |-> FALSE],
         [value |-> FloatText(Num(h.observations)), key |-> "count", float |-> FALSE]>>

\* the items of the OrderedDict Histogram.get returns, each value as the
\* text of float(v); the key of a bucket as the text of its le label
Histogram_get_items(h) ==
    [i \in 1..Len(h.bounds) |->
        [value |-> FloatText(Num(h.counts[i])), key |-> BoundText(h.bounds[i]), float |-> TRUE]]
    \o <<[value |-> FloatText(Num(h.observations)), key |-> "count", float |-> FALSE],
         [value |-> FloatText(h.sum), key |-> "sum", float |-> FALSE]>>

\* labels.copy() with labels[n] = v
WithLabel(labels, n, v) == Override(labels, <<Item(n, StrV(v))>>)

\* TextFormatter._format_summary and _format_histogram over the items of the dict
FormatItems(items, special, suffix, labels, name, const) ==
    [i \in 1..Len(items) |->
        IF ~items[i].float
        THEN FormatLine(name \o "_" \o items[i].key, labels, items[i].value, const)
        ELSE FormatLine(name \o suffix, WithLabel(labels, special, items[i].key),
                        items[i].value, const)]

\* the lines one (labels, value) pair of get_all gives
FormatSeries(kind, labels, value, name, const) ==
    CASE kind \in {"counter", "gauge"} -> <<FormatLine(name, labels, IntText(value), const)>>
      [] kind = "summary" ->
            FormatItems(Summary_get_items(value), "quantile", "", labels, name, const)
      [] kind = "histogram" ->
            FormatItems(Histogram_get_items(value), "le", "_bucket", labels, name, const)

\* the doc of the collectors of the model
Doc == "Test collector."

HeaderLine(t) == [text |-> t, name |-> "#", value |-> "", labels |-> <<>>]

RECURSIVE Flatten(_)
Flatten(seqs) == IF Len(seqs) = 0 THEN <<>> ELSE seqs[1] \o Flatten(Tail(seqs))

\* the lines of the series under the keys of order, in that order
SeriesLines(obj, order) ==
    [i \in 1..Len(order) |->
        FormatSeries(obj.kind, DecodeKey(order[i]), ValuesOf(obj.kind)[order[i]],
                     obj.name, const_labels[obj.kind].items)]

\* TextFormatter.marshall_lines of a collector whose get_all goes through
\* the keys in the given order
MarshallLinesIn(obj, order) ==
    <<HeaderLine("# HELP " \o obj.name \o " " \o Doc),
      HeaderLine("# TYPE " \o obj.name \o " " \o obj.kind)>>
    \o Flatten(SeriesLines(obj, order))

\* Collector.get_all goes through values.store in the order of insertion
MarshallLines(obj) == MarshallLinesIn(obj, key_order[obj.kind])

RECURSIVE JoinLines(_)
JoinLines(lines) ==
    IF Len(lines) = 0 THEN ""
    ELSE lines[1] \o (IF Len(lines) = 1 THEN "" ELSE "\n" \o JoinLines(Tail(lines)))

TextOf(lines) == JoinLines([i \in 1..Len(lines) |-> lines[i].text])

\* TextFormatter.marshall_collector
MarshallCollector(obj) == TextOf(MarshallLines(obj))

\* the names of the collectors of the model, in the order Python sorts them;
\* every block starts with "# HELP " and its name, so sorted(blocks) is the
\* order of the names
CollectorNames == <<"test_base", "test_counter", "test_gauge", "test_histogram", "test_summary">>

CollectorRank(n) == CHOOSE i \in 1..Len(CollectorNames) : CollectorNames[i] = n

\* blocks left in the order of registration
SortedByName_unsorted(reg) == reg

SortedByName(reg) ==
    [i \in 1..Len(reg) |->
        CHOOSE o \in {reg[j] : j \in 1..Len(reg)} :
            Cardinality({j \in 1..Len(reg) :
                CollectorRank(reg[j].name) < CollectorRank(o.name)}) = i - 1]

\* TextFormatter.marshall without the empty last line
MarshallText_noeof(reg) ==
    LET sorted == SortedByName(reg) IN
    JoinLines([i \in 1..Len(reg) |-> MarshallCollector(sorted[i])])

\* TextFormatter.marshall: the sorted blocks and the empty last line
MarshallText(reg) ==
    LET sorted == SortedByName(reg) IN
    JoinLines([i \in 1..Len(reg) |-> MarshallCollector(sorted[i])] \o <<"">>)

\* TextFormatter.marshall that leaves out a collector it cannot format
Marshall_skip ==
    /\ Call("formatter", "marshall", NoneLabels, 0, "none", "",
            <<MarshallText(SelectSeq(collectors, LAMBDA o : o.kind \in Kinds))>>)
    /\ UNCHANGED <<stores, rest, ledger, ncalls>>

\* TextFormatter.marshall of the default registry
Marshall ==
    /\ IF \E i \in 1..Len(collectors) : collectors[i].kind \notin Kinds
       THEN Call("formatter", "marshall", NoneLabels, 0, "TypeError",
                 "Not a valid object format", <<>>)
       ELSE Call("formatter", "marshall", NoneLabels, 0, "none", "",
                 <<MarshallText(collectors)>>)
    /\ UNCHANGED <<stores, rest, ledger, ncalls>>

(***************************************************************************)
(* Registry (collectors.py)                                                *)
(***************************************************************************)
\* a Gauge constructed with a registry of its own under the name of the counter
TwinObj == [name |-> "test_counter", kind |-> "gauge", id |-> "twin"]
\* a base Collector constructed with a registry of its own
BaseObj == [name |-> "test_base", kind |-> "untyped", id |-> "base"]
\* something that is not a Collector
NotCollector == [name |-> "", kind |-> "str", id |-> "str"]

Names(reg) == {reg[i].name : i \in 1..Len(reg)}

\* isinstance(collector, Collector)
IsCollector(obj) == obj.kind \in Kinds \cup {"untyped"}

\* Registry.register that replaces a collector registered under the name
Registry_register_replace(reg, obj) ==
    IF ~IsCollector(obj)
    THEN [err |-> "TypeError", msg |-> "Invalid collector type: ", collectors |-> reg]
    ELSE [err |-> "none", msg |-> "",
          collectors |-> Append(SelectSeq(reg, LAMBDA o : o.name # obj.name), obj)]

\* Registry.register: the outcome and the registry it leaves
Registry_register(reg, obj) ==
    IF ~IsCollector(obj)
    THEN [err |-> "TypeError", msg |-> "Invalid collector type: ", collectors |-> reg]
    ELSE IF obj.name \in Names(reg)
    THEN [err |-> "ValueError",
          msg |-> "A collector for " \o obj.name \o " is already registered",
          collectors |-> reg]
    ELSE [err |-> "none", msg |-> "", collectors |-> Append(reg, obj)]

\* Registry.deregister that ignores a name that is not registered
Registry_deregister_quiet(reg, name) ==
    [err |-> "none", msg |-> "", collectors |-> SelectSeq(reg, LAMBDA o : o.name # name)]

\* Registry.deregister (del self.collectors[name]): the outcome and the registry it leaves
Registry_deregister(reg, name) ==
    IF name \notin Names(reg)
    THEN [err |-> "KeyError", msg |-> name, collectors |-> reg]
    ELSE [err |-> "none", msg |-> "", collectors |-> SelectSeq(reg, LAMBDA o : o.name # name)]

\* Registry.clear: deregister every name of list(self.collectors.keys())
RECURSIVE Registry_clear(_, _)
Registry_clear(reg, names) ==
    IF Len(names) = 0 THEN reg
    ELSE Registry_clear(Registry_deregister(reg, names[1]).collectors, Tail(names))

Register(obj) ==
    LET r == Registry_register(collectors, obj) IN
    /\ Call("registry", "register", NoneLabels, obj, r.err, r.msg, <<>>)
    /\ collectors' = r.collectors
    /\ UNCHANGED <<stores, upper_bounds, const_labels, ledger, ncalls>>

Deregister(name) ==
    LET r == Registry_deregister(collectors, name) IN
    /\ Call("registry", "deregister", NoneLabels, name, r.err, r.msg, <<>>)
    /\ collectors' = r.collectors
    /\ UNCHANGED <<stores, upper_bounds, const_labels, ledger, ncalls>>

\* Registry.get
RegistryGet(name) ==
    /\ IF name \in Names(collectors)
       THEN Call("registry", "get", NoneLabels, name, "none", "",
                 <<CHOOSE o \in {collectors[i] : i \in 1..Len(collectors)} : o.name = name>>)
       ELSE Call("registry", "get", NoneLabels, name, "KeyError", name, <<>>)
    /\ UNCHANGED <<stores, rest, ledger, ncalls>>

\* Registry.get_all
RegistryGetAll ==
    /\ Call("registry", "get_all", NoneLabels, "", "none", "", collectors)
    /\ UNCHANGED <<stores, rest, ledger, ncalls>>

Clear ==
    /\ Call("registry", "clear", NoneLabels, "", "none", "", <<>>)
    /\ collectors' = Registry_clear(collectors, [i \in 1..Len(collectors) |-> collectors[i].name])
    /\ UNCHANGED <<stores, upper_bounds, const_labels, ledger, ncalls>>

(***************************************************************************)
(* Collector.set_value and Collector.__init__ of any kind                  *)
(***************************************************************************)
\* Collector.set_value called on a collector of the kind
CollectorSetValue(kind, L, value) ==
    LET r == SetValue(kind, ValuesOf(kind), L, value) IN
    /\ Call(kind, "set_value", L, value, r.err, r.msg, <<>>)
    /\ SetValuesOf(kind, r.store)
    /\ key_order' = Inserted(kind, ValuesOf(kind), r.store)
    /\ IF r.err = "none" /\ kind \in {"counter", "gauge"}
       THEN LedgerSet(kind, L, value) ELSE UNCHANGED ledger
    /\ UNCHANGED <<rest, ncalls>>

\* a name METRIC_NAME_RE does not match
BadNameObj == [name |-> "bad-name", kind |-> "counter", id |-> "bad"]

\* METRIC_NAME_RE.match(name) over the names of the model
MetricNameOk(name) == name \notin {"bad-name", ""}

\* Collector.__init__ with the default registry: the outcome, the
\* const_labels the collector gets and the registry it leaves
Collector_init(obj, CL, reg) ==
    LET chk == IF Truthy(CL) THEN CheckLabels(obj.kind, CL) ELSE NoErr
        r == Registry_register(reg, obj)
    IN  IF ~MetricNameOk(obj.name)
        THEN [err |-> "ValueError", msg |-> "Invalid metric name: " \o obj.name,
              const_labels |-> EmptyDict, collectors |-> reg]
        ELSE IF chk.err # "none"
        THEN [err |-> chk.err, msg |-> chk.msg, const_labels |-> EmptyDict, collectors |-> reg]
        ELSE [err |-> r.err, msg |-> r.msg,
              const_labels |-> IF Truthy(CL) THEN CL ELSE EmptyDict,
              collectors |-> r.collectors]

\* the ghost entries of the other collectors
Without(f, coll) == [e \in {d \in DOMAIN f : d[1] # coll} |-> f[e]]

\* a new collector of the kind is constructed; when the constructor returns,
\* it is the collector of its kind the model follows, with no series yet
Construct(obj, CL) ==
    LET r == Collector_init(obj, CL, collectors) IN
    /\ Call(obj.kind, "construct", CL, obj, r.err, r.msg, <<>>)
    /\ collectors' = r.collectors
    /\ IF r.err = "none"
       THEN /\ const_labels' = [const_labels EXCEPT ![obj.kind] = r.const_labels]
            /\ SetValuesOf(obj.kind, EmptyStore)
            /\ key_order' = [key_order EXCEPT ![obj.kind] = <<>>]
            /\ ledger' = Without(ledger, obj.kind)
            /\ ncalls' = Without(ncalls, obj.kind)
       ELSE UNCHANGED <<stores, const_labels, ledger, ncalls>>
    /\ UNCHANGED upper_bounds

RegistryObjects == {CounterObj, GaugeObj, TwinObj, BaseObj, NotCollector}
RegistryNames == {"test_counter", "test_gauge", "test_missing"}

NextRegistry ==
    \/ \E obj \in RegistryObjects : Register(obj)
    \/ \E name \in RegistryNames : Deregister(name)
    \/ \E name \in RegistryNames : RegistryGet(name)
    \/ RegistryGetAll
    \/ Clear
    \/ CounterInc(AB12)
    \/ GaugeSet(NoneLabels, 2)

SpecRegistry == Init /\ [][NextRegistry]_vars

ReservedLabels == {A1, AJob, Le1, Dunder}

\* what a collector of the kind hands to set_value
ValueOfKind(kind) ==
    CASE kind \in {"counter", "gauge"} -> 1
      [] kind = "summary" -> NewEstimator
      [] kind = "histogram" -> NewHistogram(InitBuckets).h

NextLabels ==
    \/ \E kind \in Kinds, L \in ReservedLabels : CollectorSetValue(kind, L, ValueOfKind(kind))
    \/ \E obj \in {CounterObj, GaugeObj, SummaryObj, HistogramObj}, CL \in ReservedLabels :
           Construct(obj, CL)
    \/ Construct(BadNameObj, A1)
    \/ Clear

SpecLabels == Init /\ [][NextLabels]_vars

\* the bucket lists of test_unsorted_buckets and test_insufficient_buckets
\* beside a valid one
FailureBuckets == {InitBuckets, <<Num(2), Num(1)>>, <<>>}

InitFailures == \E buckets \in FailureBuckets : InitWith(buckets)

FailureLabels == {A1, JobX}
FailureValues == {Num(1), StrValue, BoolValue, BigInt}

NextFailures ==
    \/ \E L \in FailureLabels : CounterSet(L, 3)
    \/ \E L \in FailureLabels : CounterInc(L)
    \/ \E L \in FailureLabels, v \in {-1, 2} : CounterAdd(L, v)
    \/ \E L \in FailureLabels : GaugeSet(L, 2)
    \/ \E L \in FailureLabels : GaugeInc(L)
    \/ \E L \in FailureLabels : GaugeDec(L)
    \/ \E L \in FailureLabels : GaugeAdd(L, 2)
    \/ \E L \in FailureLabels : GaugeSub(L, 2)
    \/ \E v \in FailureValues : SummaryObserve(A1, v)
    \/ SummaryObserve(JobX, Num(1))
    \/ \E v \in FailureValues : HistogramObserve(A1, v)
    \/ \E L \in {JobX, Le1} : HistogramObserve(L, Num(1))

SpecFailures == InitFailures /\ [][NextFailures]_vars

FrameLabels == {A1, B1}

NextFrame ==
    \/ \E L \in FrameLabels : CounterSet(L, 3)
    \/ \E L \in FrameLabels : CounterInc(L)
    \/ \E L \in FrameLabels : CounterAdd(L, 2)
    \/ \E L \in FrameLabels : GaugeSet(L, 2)
    \/ \E L \in FrameLabels : GaugeInc(L)
    \/ \E L \in FrameLabels : GaugeDec(L)
    \/ \E L \in FrameLabels : GaugeAdd(L, 2)
    \/ \E L \in FrameLabels : GaugeSub(L, 2)
    \/ \E L \in FrameLabels : SummaryObserve(L, Num(1))
    \/ \E L \in FrameLabels : HistogramObserve(L, Num(1))

SpecFrame == Init /\ [][NextFrame]_vars

ThreadValues == {-1, 1, 2}

\* the main thread may set the series before the threads start
NextThreads ==
    \/ \E coll \in {"counter", "gauge"} :
          /\ \A t \in Threads : threads[t].pc = "idle"
          /\ ~Written(coll, ThreadLabels)
          /\ IF coll = "counter" THEN CounterSet(ThreadLabels, 3) ELSE GaugeSet(ThreadLabels, 3)
    \/ \E t \in Threads, coll \in {"counter", "gauge"}, v \in ThreadValues : ThreadRead(t, coll, v)
    \/ \E t \in Threads : ThreadWrite(t)

SpecThreads == Init /\ [][NextThreads]_vars

\* const_labels that share the name a with the labels of a series
ConstAZ == DictLabels(<<Item("z", StrV("9")), Item("a", StrV("c"))>>)

InitFormat == \E CL \in {EmptyDict, ConstAZ} : InitConst(InitBuckets, CL)

FormatLabels == {NoneLabels, A1, B1}

NextFormat ==
    \/ \E L \in FormatLabels : CounterInc(L)
    \/ \E L \in FormatLabels : GaugeSet(L, -2)
    \/ \E L \in FormatLabels : SummaryObserve(L, Num(1))
    \/ \E L \in FormatLabels, v \in {Num(1), Num(2)} : HistogramObserve(L, v)
    \/ Marshall

SpecFormat == InitFormat /\ [][NextFormat]_vars

NextMarshall ==
    \/ \E name \in {"test_counter", "test_histogram", "test_base"} : Deregister(name)
    \/ \E obj \in {CounterObj, HistogramObj, BaseObj} : Register(obj)
    \/ Clear
    \/ CounterInc(A1)
    \/ GaugeSet(NoneLabels, -2)
    \/ HistogramObserve(A1, Num(1))
    \/ Marshall

SpecMarshall == Init /\ [][NextMarshall]_vars

LifecycleLabels == {AB12, BA21, JobX}

NextLifecycle ==
    \/ \E L \in LifecycleLabels : CounterInc(L)
    \/ \E L \in LifecycleLabels : CounterGet(L)
    \/ \E L \in LifecycleLabels : GaugeSet(L, 2)
    \/ \E L \in LifecycleLabels : GaugeGet(L)
    \/ \E L \in LifecycleLabels, v \in {Num(1), BigInt} : SummaryObserve(L, v)
    \/ \E L \in LifecycleLabels : SummaryGet(L)
    \/ \E L \in LifecycleLabels, v \in {Num(1), BigInt} : HistogramObserve(L, v)
    \/ \E L \in LifecycleLabels : HistogramGet(L)
    \/ \E name \in {"test_counter", "test_histogram"} : Deregister(name)
    \/ Register(CounterObj)
    \/ Clear

SpecLifecycle == Init /\ [][NextLifecycle]_vars

(***************************************************************************)
(* Bucket helpers (histogram.py)                                           *)
(***************************************************************************)
MaxCount == 3

Raised(msg) == [err |-> "Exception", msg |-> msg, ret |-> <<>>]

\* linearBuckets(start, width, count)
LinearBuckets(start, width, count) ==
    IF count < 1 THEN Raised("Invalid count, must be a positive number")
    ELSE [err |-> "none", msg |-> "",
          ret |-> [i \in 1..count |-> start + (i - 1) * width]]

\* exponentialBuckets(start, factor, count)
ExponentialBuckets(start, factor, count) ==
    IF count < 1 THEN Raised("Invalid count, must be a positive number")
    ELSE IF start <= 0 THEN Raised("Invalid start, must be positive")
    ELSE IF factor < 1 THEN Raised("Invalid factor, must be greater than one")
    ELSE [err |-> "none", msg |-> "",
          ret |-> [i \in 1..count |-> start * ((i - 1) * factor)]]

\* a call of one of the two helpers
BucketsCall(op, start, step, count) ==
    LET r == IF op = "linearBuckets" THEN LinearBuckets(start, step, count)
             ELSE ExponentialBuckets(start, step, count) IN
    /\ Call("histogram", op, NoneLabels, <<start, step, count>>, r.err, r.msg, r.ret)
    /\ UNCHANGED <<stores, rest, ledger, ncalls>>

NextBuckets ==
    \E start \in -1..2, step \in 0..3, count \in 0..MaxCount :
        \/ BucketsCall("linearBuckets", start, step, count)
        \/ BucketsCall("exponentialBuckets", start, step, count)

SpecBuckets == Init /\ [][NextBuckets]_vars

(***************************************************************************)
(* Decorators (decorators.py).  An invocation of a decorated callable is a *)
(* task: a coroutine function is awaited and other invocations run while   *)
(* it is suspended; a regular function runs to its end before anything    *)
(* else of the event loop does.                                            *)
(***************************************************************************)
MaxTasks == 3

\* the labels given to the decorator
DecoratorLabels == A1

\* how the wrapped callable ends; CancelledError derives from BaseException
Outcomes == {"return", "Exception", "CancelledError"}

\* except Exception: catches the classes derived from Exception
IsException(exc) == exc \in {"Exception", "TypeError", "ValueError"}

Task(deco, kind, pc, exc) == [kind |-> kind, pc |-> pc, exc |-> exc, deco |-> deco]

\* the wrapper of a regular function is on the stack
SyncRunning == \E i \in 1..Len(tasks) : tasks[i].kind = "sync" /\ tasks[i].pc = "running"

\* inprogress, up to the start of func: metric.inc(labels), then
\* rv = func(*args, **kwds), which raises TypeError when the arguments do not
\* bind.  The async wrapper makes the call before its try block, the sync
\* wrapper inside it.
Inprogress_enter(store, kind, binds) ==
    LET inc == Gauge_add(store, DecoratorLabels, 1) IN
    IF inc.err # "none" THEN [exc |-> inc.err, store |-> inc.store]
    ELSE IF ~binds
         THEN [exc |-> "TypeError",
               store |-> IF kind = "sync"
                         THEN Gauge_add(inc.store, DecoratorLabels, -1).store
                         ELSE inc.store]
         ELSE [exc |-> "", store |-> inc.store]

\* inprogress, finally: metric.dec(labels)
Inprogress_exit(store) == Gauge_add(store, DecoratorLabels, -1).store

\* count_exceptions that counts whatever is raised
CountExceptions_except_any(store, exc) ==
    IF exc # "return" THEN Counter_add(store, DecoratorLabels, 1).store ELSE store

\* count_exceptions, except Exception: metric.inc(labels); raise
CountExceptions_except(store, exc) ==
    IF IsException(exc) THEN Counter_add(store, DecoratorLabels, 1).store ELSE store

\* a decorated callable is invoked and runs up to the start of func
Invoke(deco, kind, binds) ==
    LET g == Inprogress_enter(gauge_values, kind, binds)
        exc == IF deco = "inprogress" THEN g.exc
               ELSE IF binds THEN "" ELSE "TypeError"
    IN  /\ Len(tasks) < MaxTasks
        /\ ~SyncRunning
        /\ Record(deco, "invoke", DecoratorLabels, kind, IF exc = "" THEN "none" ELSE exc, "", <<>>)
        /\ tasks' = Append(tasks, Task(deco, kind, IF exc = "" THEN "running" ELSE "raised", exc))
        /\ gauge_values' = IF deco = "inprogress" THEN g.store ELSE gauge_values
        /\ counter_values' = IF deco = "count_exceptions"
                             THEN CountExceptions_except(counter_values, IF binds THEN "return" ELSE exc)
                             ELSE counter_values
        /\ key_order' = [key_order EXCEPT
              !["gauge"] = Inserted("gauge", gauge_values, gauge_values')["gauge"],
              !["counter"] = Inserted("counter", counter_values, counter_values')["counter"]]
        /\ UNCHANGED <<summary_values, histogram_values, rest, ledger, ncalls,
                       threads, service, middleware>>

\* func of invocation i ends, by return or by raise, and its wrapper with it
Complete(i, outcome) ==
    LET t == tasks[i] IN
    /\ t.pc = "running"
    /\ SyncRunning => t.kind = "sync"
    /\ Record(t.deco, "complete", DecoratorLabels, i,
              IF outcome = "return" THEN "none" ELSE outcome, "", <<>>)
    /\ tasks' = [tasks EXCEPT ![i] =
          Task(t.deco, t.kind, IF outcome = "return" THEN "returned" ELSE "raised",
               IF outcome = "return" THEN "" ELSE outcome)]
    /\ gauge_values' = IF t.deco = "inprogress" THEN Inprogress_exit(gauge_values)
                       ELSE gauge_values
    /\ counter_values' = IF t.deco = "count_exceptions"
                         THEN CountExceptions_except(counter_values, outcome)
                         ELSE counter_values
    /\ key_order' = [key_order EXCEPT
          !["counter"] = Inserted("counter", counter_values, counter_values')["counter"]]
    /\ UNCHANGED <<summary_values, histogram_values, rest, ledger, ncalls,
                   threads, service, middleware>>

Decorators == {"inprogress", "count_exceptions"}

NextDecorators ==
    \/ \E deco \in Decorators, kind \in {"sync", "async"}, binds \in BOOLEAN :
          Invoke(deco, kind, binds)
    \/ \E i \in 1..Len(tasks), outcome \in Outcomes : Complete(i, outcome)

SpecDecorators == Init /\ [][NextDecorators]_vars

(***************************************************************************)
(* Service (service.py).  The site, the runner and the application are     *)
(* aiohttp objects: a field holds "None" or the name of the class of the   *)
(* object it refers to; listening tells whether the site accepts           *)
(* connections, which is what runner.addresses reports.                    *)
(***************************************************************************)
NOT_RUNNING == "No URL available, Prometheus metrics server is not running"
ALREADY_RUNNING == "Prometheus metrics server is already running"
ALREADY_STOPPED == "Prometheus metrics server is already stopped"
DEFAULT_METRICS_PATH == "/metrics"

\* the step of start that raises, if any: runner.setup(), the constructor of
\* TCPSite, or site.start() (the address is in use)
StartFailures == {"none", "setup", "TCPSite", "site.start"}

Warning(msg) == <<"warning", msg>>

\* Service.start past the check of the site: the application, the runner and
\* the site, with the step that raises
Service_start_site(s, ssl, fail) ==
    LET setup == [s EXCEPT !.app = "Application", !.metrics_url = DEFAULT_METRICS_PATH,
                           !.runner = "AppRunner"]
        tried == [setup EXCEPT !.https = ToString(ssl)]
    IN  IF fail = "setup" THEN [err |-> "Exception", service |-> setup, log |-> <<>>]
        ELSE IF fail = "TCPSite"
             THEN [err |-> "Exception",
                   service |-> tried,
                   log |-> <<"exception", "error creating metrics server">>]
             ELSE IF fail = "site.start"
                  THEN [err |-> "Exception",
                        service |-> [tried EXCEPT !.site = "TCPSite"],
                        log |-> <<"exception", "error creating metrics server">>]
                  ELSE [err |-> "none", service |-> [tried EXCEPT !.site = "TCPSite", !.listening = TRUE],
                        log |-> <<>>]

\* Service.start: the outcome, what it logs and the fields it leaves
Service_start(s, ssl, fail) ==
    IF s.site # "None" THEN [err |-> "none", service |-> s, log |-> Warning(ALREADY_RUNNING)]
    ELSE Service_start_site(s, ssl, fail)

\* Service.stop
Service_stop(s) ==
    IF s.site = "None" THEN [err |-> "none", service |-> s, log |-> Warning(ALREADY_STOPPED)]
    ELSE [err |-> "none", service |-> [s EXCEPT !.site = "None", !.app = "None", !.runner = "None",
                                !.listening = FALSE],
          log |-> <<>>]

\* Service.base_url; runner.addresses is empty while the site does not listen
Service_base_url(s) ==
    IF s.site = "None" THEN [err |-> "Exception", msg |-> NOT_RUNNING, ret |-> <<>>]
    ELSE IF ~s.listening THEN [err |-> "IndexError", msg |-> "list index out of range", ret |-> <<>>]
    ELSE [err |-> "none", msg |-> "",
          ret |-> <<"http" \o (IF s.https = "TRUE" THEN "s" ELSE "") \o "://127.0.0.1:9090">>]

\* Service.root_url and Service.metrics_url
Service_url(s, prop) ==
    LET b == Service_base_url(s) IN
    IF b.err # "none" \/ prop = "base_url" THEN b
    ELSE [b EXCEPT !.ret = <<b.ret[1] \o (IF prop = "root_url" THEN "/" ELSE s.metrics_url)>>]

ServiceCall(op, value, err, msg, ret) ==
    /\ Record("service", op, NoneLabels, value, err, msg, ret)
    /\ UNCHANGED <<stores, rest, ledger, ncalls, threads, tasks, middleware>>

Start(ssl, fail) ==
    LET r == Service_start(service, ssl, fail) IN
    /\ ServiceCall("start", fail, r.err, "", r.log)
    /\ service' = r.service

Stop ==
    LET r == Service_stop(service) IN
    /\ ServiceCall("stop", 0, r.err, "", r.log)
    /\ service' = r.service

Url(prop) ==
    LET r == Service_url(service, prop) IN
    /\ ServiceCall(prop, 0, r.err, r.msg, r.ret)
    /\ UNCHANGED service

UrlProperties == {"base_url", "root_url", "metrics_url"}

NextService ==
    \/ \E ssl \in BOOLEAN, fail \in StartFailures : Start(ssl, fail)
    \/ Stop
    \/ \E prop \in UrlProperties : Url(prop)

SpecService == Init /\ [][NextService]_vars

(***************************************************************************)
(* MetricsMiddleware (asgi/middleware.py).  A call of the middleware is a  *)
(* request in flight: the middleware awaits the application, which sends   *)
(* messages and then returns or raises; the calls interleave at the        *)
(* awaits.                                                                 *)
(***************************************************************************)
MaxRequests == 2

EXCLUDE_PATHS == {"/metrics", "/metrics/", "/docs", "/openapi.json",
                  "/docs/oauth2-redirect", "/redoc", "/favicon.ico"}

\* get_full_or_template_path without a Starlette application
FullPath(root_path, path) == root_path \o path

\* labels = dict(method=method, path=path)
RequestLabels(method, path) ==
    DictLabels(<<Item("method", StrV(method)), Item("path", StrV(path))>>)

\* the value of the status_code label
StatusCode(status, group) ==
    IF group THEN ToString(status \div 100) \o "xx" ELSE ToString(status)

\* status_code_labels = labels.copy(); status_code_labels["status_code"] = ...
StatusCodeLabels(method, path, code) ==
    DictLabels(<<Item("method", StrV(method)), Item("path", StrV(path)),
                 Item("status_code", StrV(code))>>)

\* counter.inc(labels) on a counter of the middleware
Inc(store, L) == Counter_add(store, L, 1).store

\* does the middleware count the request: an http scope, path not excluded
Monitored(type, path) == type = "http" /\ path \notin EXCLUDE_PATHS

MiddlewareStep(op, value, err) ==
    /\ Record("middleware", op, NoneLabels, value, err, "", <<>>)
    /\ UNCHANGED <<stores, rest, ledger, ncalls, threads, tasks, service>>

\* __call__ up to the await of the application
Request(type, method, root_path, path) ==
    LET full == FullPath(root_path, path)
        monitored == Monitored(type, full)
        req == [type |-> type, pc |-> "app", path |-> full, method |-> method,
                monitored |-> monitored, started |-> FALSE, nresponses |-> 0, nstatus |-> 0]
    IN  /\ Len(middleware.inflight) < MaxRequests
        /\ MiddlewareStep("call", req, "none")
        /\ middleware' = [middleware EXCEPT
              !.requests = IF monitored THEN Inc(@, RequestLabels(method, full)) ELSE @,
              !.inflight = Append(@, req)]

\* wrapped_send: the counters after the application sent a message
WrappedSend(m, req, msgtype, status) ==
    IF msgtype = "http.response.start"
    THEN [m EXCEPT
            !.status_codes = Inc(@, StatusCodeLabels(req.method, req.path,
                                       StatusCode(status, m.group_status_codes))),
            !.responses = Inc(@, RequestLabels(req.method, req.path))]
    ELSE m

\* the application of request i sends a message: through wrapped_send when
\* the request is counted, through send itself otherwise.  An application
\* sends 'http.response.start' once.
AppSend(i, msgtype, status) ==
    LET req == middleware.inflight[i]
        counted == req.monitored /\ msgtype = "http.response.start"
        m == IF req.monitored THEN WrappedSend(middleware, req, msgtype, status)
             ELSE middleware
    IN  /\ req.pc = "app"
        /\ req.type = "http"
        /\ IF msgtype = "http.response.start" THEN ~req.started ELSE req.started
        /\ MiddlewareStep("send", <<i, msgtype, status>>, "none")
        /\ middleware' = [m EXCEPT
              !.inflight[i].started = TRUE,
              !.inflight[i].nresponses = IF counted THEN @ + 1 ELSE @,
              !.inflight[i].nstatus = IF counted THEN @ + 1 ELSE @]

\* the application of request i returns
AppReturn(i) ==
    /\ middleware.inflight[i].pc = "app"
    /\ MiddlewareStep("return", i, "none")
    /\ middleware' = [middleware EXCEPT !.inflight[i].pc = "done"]

\* __call__, except Exception, of a request the middleware counts
Except(m, req) ==
    [m EXCEPT
        !.exceptions = Inc(@, RequestLabels(req.method, req.path)),
        !.status_codes = Inc(@, StatusCodeLabels(req.method, req.path,
                                   IF m.group_status_codes THEN "5xx" ELSE "500")),
        !.responses = Inc(@, RequestLabels(req.method, req.path))]

\* the application of request i raises
AppRaise(i, exc) ==
    LET req == middleware.inflight[i]
        counted == req.monitored /\ IsException(exc)
        m == IF counted THEN Except(middleware, req) ELSE middleware
    IN  /\ req.pc = "app"
        /\ MiddlewareStep("raise", i, exc)
        /\ middleware' = [m EXCEPT
              !.inflight[i].pc = "raised",
              !.inflight[i].nresponses = IF counted THEN @ + 1 ELSE @,
              !.inflight[i].nstatus = IF counted THEN @ + 1 ELSE @]

ScopeTypes == {"http", "websocket", "lifespan"}
Methods == {"GET", "POST"}
Paths == {"/a", "/metrics"}
Statuses == {200, 404}

NextMiddleware ==
    \/ \E type \in ScopeTypes, method \in Methods, path \in Paths :
          Request(type, method, "", path)
    \/ \E i \in 1..Len(middleware.inflight),
          msgtype \in {"http.response.start", "http.response.body"}, status \in Statuses :
          AppSend(i, msgtype, status)
    \/ \E i \in 1..Len(middleware.inflight) : AppReturn(i)
    \/ \E i \in 1..Len(middleware.inflight), exc \in {"Exception", "CancelledError"} :
          AppRaise(i, exc)

SpecMiddleware == Init /\ [][NextMiddleware]_vars

(***************************************************************************)
(* Properties                                                              *)
(***************************************************************************)
SeriesOf(coll) == {e \in DOMAIN ledger : e[1] = coll}

\* C1: two label arguments address the same series exactly when they hold the
\* same set of (name, value) pairs: a label argument finds a series iff an
\* argument with the same pairs was written, it reads the value last written
\* under those pairs, and the store holds one series per written set of
\* pairs (None, '' and {} are the one empty set; order never matters).
C1_SameSeriesIffSamePairs ==
    /\ Cardinality(DOMAIN gauge_values) = Cardinality(SeriesOf("gauge"))
    /\ \A B \in KeyLabels :
        /\ GetValue(gauge_values, B).found <=> Written("gauge", B)
        /\ GetValue(gauge_values, B).found =>
               Stored(gauge_values, B) = Entry("gauge", B).base

\* a reordered dict was written over the series of the first order, next to
\* the series without labels and a series that differs in one value
C1_Witness ==
    /\ last.op = "set" /\ last.labels = BA21 /\ last.err = "none"
    /\ nops = 3
    /\ Cardinality(DOMAIN gauge_values) = 2
    /\ GetValue(gauge_values, AB12).found
    /\ GetValue(gauge_values, AB13).found

\* C2: a Counter series equals the last value set (0 when never set, so the
\* first add on an absent series starts from 0) plus the sum of the
\* increments made since.
C2_CounterSum ==
    \A L \in CounterLabels :
        /\ GetValue(counter_values, L).found <=> Written("counter", L)
        /\ GetValue(counter_values, L).found =>
               Stored(counter_values, L) = Entry("counter", L).base + Entry("counter", L).incs

C2_Witness ==
    /\ last.coll = "counter" /\ last.op = "add" /\ last.err = "none"
    /\ Entry("counter", AB12) = [n |-> 2, base |-> 3, incs |-> 3]
    /\ Stored(counter_values, BA21) = 6

\* C3: Counter.add with a negative value fails with ValueError "Counters
\* can't decrease" and leaves the store as it was.
C3_NegativeAdd ==
    [][(last'.coll = "counter" /\ last'.op = "add" /\ last'.value < 0) =>
          /\ last'.err = "ValueError"
          /\ last'.msg = "Counters can't decrease"
          /\ counter_values' = counter_values]_vars

C3_Witness ==
    /\ last.coll = "counter" /\ last.op = "add" /\ last.value < 0
    /\ last.err = "ValueError"
    /\ GetValue(counter_values, last.labels).found
    /\ ~GetValue(counter_values, NoneLabels).found

\* C4 as claimed: every stored Counter value is non-negative.
C4_NonNegative == \A k \in DOMAIN counter_values : counter_values[k] >= 0

\* C4: every stored Counter value is at least the value last written by set
\* for its series (0 when never set): inc and add never lower a value, so a
\* value is negative only when set wrote a negative one.
C4_NeverBelowLastSet ==
    \A L \in CounterLabels :
        GetValue(counter_values, L).found =>
            /\ Stored(counter_values, L) >= Entry("counter", L).base
            /\ Entry("counter", L).base >= 0 => Stored(counter_values, L) >= 0

C4_Witness ==
    /\ GetValue(counter_values, NoneLabels).found
    /\ Entry("counter", NoneLabels).base = -1
    /\ Stored(counter_values, NoneLabels) = 1

\* C5: a Gauge series equals the last value set (0 when never set) plus the
\* signed sum of the deltas made since (inc +1, dec -1, add +v, sub -v), and
\* get returns that value.
C5_GaugeSum ==
    /\ \A L \in GaugeLabels :
        /\ GetValue(gauge_values, L).found <=> Written("gauge", L)
        /\ GetValue(gauge_values, L).found =>
               Stored(gauge_values, L) = Entry("gauge", L).base + Entry("gauge", L).incs
    /\ (last.coll = "gauge" /\ last.op = "get" /\ last.err = "none") =>
           last.ret = <<Entry("gauge", last.labels).base + Entry("gauge", last.labels).incs>>

\* a value was set and two deltas that cancel were applied, the last a dec
C5_Witness ==
    /\ last.coll = "gauge" /\ last.op = "dec" /\ last.err = "none"
    /\ Entry("gauge", AB12) = [n |-> 2, base |-> -2, incs |-> 0]
    /\ Stored(gauge_values, AB12) = -2

\* the count a histogram holds for an upper bound; 0 for a series not yet built
CountAt(store, L, b) ==
    IF GetValue(store, L).found
    THEN LET h == Stored(store, L) IN h.counts[CHOOSE i \in 1..Len(h.bounds) : h.bounds[i] = b]
    ELSE 0

ObservationsOf(store, L) ==
    IF GetValue(store, L).found THEN Stored(store, L).observations ELSE 0

\* the upper bounds the collector was configured with, +Inf included
ConfiguredBounds == {upper_bounds[i] : i \in 1..Len(upper_bounds)} \cup {POS_INF}

\* C6: one successful observe(value) adds exactly 1 to the count of every
\* configured upper bound b with value <= b, leaves every bound b < value as it
\* was, and adds exactly 1 to the observation count.
C6_ObserveStep ==
    [][(last'.coll = "histogram" /\ last'.op = "observe" /\ last'.err = "none") =>
          LET L == last'.labels
              value == last'.value
          IN /\ \A b \in ConfiguredBounds :
                  /\ Leq(value, b) =>
                        CountAt(histogram_values', L, b) = CountAt(histogram_values, L, b) + 1
                  /\ Lt(b, value) =>
                        CountAt(histogram_values', L, b) = CountAt(histogram_values, L, b)
             /\ ObservationsOf(histogram_values', L) = ObservationsOf(histogram_values, L) + 1]_vars

\* the value 2 was observed twice on buckets (1, 2, +Inf)
C6_Witness ==
    /\ last.coll = "histogram" /\ last.op = "observe" /\ last.err = "none"
    /\ last.value = Num(2) /\ last.labels = BA21
    /\ upper_bounds = <<Num(1), Num(2)>>
    /\ Stored(histogram_values, AB12).counts = <<0, 2, 2>>

\* C7 as claimed: for every Histogram series the count of the +Inf bucket
\* equals the observation count, and the counts never decrease along the bounds.
C7_Cumulative ==
    \A k \in DOMAIN histogram_values :
        LET h == histogram_values[k] IN
        /\ \A i \in 1..Len(h.bounds) : h.bounds[i] = POS_INF => h.counts[i] = h.observations
        /\ \A i, j \in 1..Len(h.bounds) : Lt(h.bounds[i], h.bounds[j]) => h.counts[i] <= h.counts[j]

StrictlyAscending(buckets) == \A i \in 1..(Len(buckets) - 1) : Lt(buckets[i], buckets[i + 1])

HasDescent(buckets) == \E i \in 1..(Len(buckets) - 1) : Lt(buckets[i + 1], buckets[i])

FirstObserve == last.coll = "histogram" /\ last.op = "observe" /\ IsFloatOrInt(last.value)

\* C8 as claimed: building a histogram fails with "Buckets not in sorted
\* order" whenever the upper bounds are not strictly ascending.
C8_StrictlyAscending ==
    ~StrictlyAscending(upper_bounds) =>
        /\ histogram_values = EmptyStore
        /\ FirstObserve => (last.err = "ValueError" /\ last.msg = "Buckets not in sorted order")

\* C8: building a histogram fails with "Buckets not in sorted order" whenever
\* some upper bound is greater than the bound that follows it.
C8_Descending ==
    HasDescent(upper_bounds) =>
        /\ histogram_values = EmptyStore
        /\ FirstObserve => (last.err = "ValueError" /\ last.msg = "Buckets not in sorted order")

C8_Witness ==
    /\ upper_bounds = <<Num(2), Num(1)>>
    /\ FirstObserve /\ last.msg = "Buckets not in sorted order"
    /\ nops = 2

\* C9: +Inf is appended exactly when the bounds are non-empty and do not end
\* with +Inf, so every histogram that was built ends with +Inf and holds the
\* supplied bounds and no other; building fails with "Must have at least two
\* buckets" exactly when no bound or only +Inf was supplied.
C9_Normalization ==
    /\ \A k \in DOMAIN histogram_values :
        LET h == histogram_values[k] IN
        /\ h.bounds[Len(h.bounds)] = POS_INF
        /\ {h.bounds[i] : i \in 1..Len(h.bounds)} = ConfiguredBounds
        /\ Len(h.bounds) = Cardinality(ConfiguredBounds)
    /\ upper_bounds \in {<<>>, <<POS_INF>>} =>
        /\ histogram_values = EmptyStore
        /\ FirstObserve => (last.err = "ValueError" /\ last.msg = "Must have at least two buckets")
    /\ last.msg = "Must have at least two buckets" => upper_bounds \in {<<>>, <<POS_INF>>}
    /\ (FirstObserve /\ last.labels = NoneLabels /\ last.err # "none") =>
           (upper_bounds \in {<<>>, <<POS_INF>>} \/ HasDescent(upper_bounds))

C9_Witness ==
    /\ upper_bounds = <<Num(2)>>
    /\ GetValue(histogram_values, NoneLabels).found
    /\ Stored(histogram_values, NoneLabels).bounds = <<Num(2), POS_INF>>

\* C10: for the Summary and the Histogram collector the count of a series is
\* the number of successful observe calls made with labels of the same pairs;
\* a series exists once such a call was made, and get reports that count.
C10_ExactCount ==
    /\ \A L \in ObserveLabels :
        /\ GetValue(histogram_values, L).found <=> Calls("histogram", L) > 0
        /\ GetValue(summary_values, L).found <=> Calls("summary", L) > 0
        /\ GetValue(histogram_values, L).found =>
               Histogram_get(Stored(histogram_values, L)).count = Calls("histogram", L)
        /\ GetValue(summary_values, L).found =>
               Summary_get(Stored(summary_values, L)).count = Calls("summary", L)
    /\ (last.op = "get" /\ last.err = "none") =>
           last.ret[1].count = Calls(last.coll, last.labels)

C10_Witness ==
    /\ Calls("summary", AB12) = 2
    /\ Calls("histogram", NoneLabels) = 1
    /\ last.op = "observe" /\ last.err = "none"

\* some update of the collector with these (name, value) pairs succeeded
Updated(coll, L) == Written(coll, L) \/ Calls(coll, L) > 0

\* C11: a collector holds a series under a label set exactly when some update
\* with an equivalent label argument succeeded on it (so that get of a label
\* set never updated raises KeyError).
C11_ExistsIffUpdated ==
    \A coll \in Kinds, L \in LifecycleLabels :
        GetValue(ValuesOf(coll), L).found <=> Updated(coll, L)

\* the rest of the lifecycle: no call on a collector or on the registry,
\* deregister and clear included, removes a series, and get raises KeyError
\* exactly when the collector holds no series for the labels
C11_NeverRemoved ==
    [][/\ (\A coll \in Kinds, L \in LifecycleLabels :
               GetValue(ValuesOf(coll), L).found => GetValue(ValuesOf(coll)', L).found)
          /\ \A c \in Kinds : (last'.coll = c /\ last'.op = "get") =>
               (last'.err = "KeyError" <=> ~GetValue(ValuesOf(c), last'.labels).found)]_vars

\* the label names of a label argument
NamesOf(L) == {L.items[i].name : i \in 1..Len(L.items)}

Reserved(L) == "job" \in NamesOf(L) \/ \E n \in NamesOf(L) : StartsWithDunder(n)

\* C14: set_value, and the construction of a collector with const_labels,
\* raise ValueError for labels that hold the name 'job' or a name starting
\* with '__', whatever the kind of the collector, and then store nothing; a
\* label named 'le' is rejected by a Histogram in the same way, and a
\* Counter, a Gauge and a Summary accept it: set_value stores the series, and
\* the constructor keeps the const_labels unless the name is invalid or
\* already registered.
C14_ReservedLabels ==
    [][\A kind \in Kinds : (last'.coll = kind /\ last'.op \in {"set_value", "construct"}) =>
        LET L == last'.labels
            bad == Reserved(L) \/ (kind = "histogram" /\ "le" \in NamesOf(L))
        IN  /\ bad => /\ last'.err = "ValueError"
                      /\ stores' = stores
                      /\ const_labels' = const_labels
                      /\ collectors' = collectors
            /\ (~bad /\ last'.op = "set_value") =>
                   /\ last'.err = "none"
                   /\ GetValue(ValuesOf(kind)', L).found
            /\ (~bad /\ last'.op = "construct") =>
                   /\ last'.err = "none" <=>
                          /\ MetricNameOk(last'.value.name)
                          /\ last'.value.name \notin Names(collectors)
                   /\ last'.err = "none" => const_labels'[kind] = L]_vars

\* a Summary took a series labelled 'le' while a Gauge constructed with the
\* const_labels {le: 1} is registered
C14_Witness ==
    /\ last.coll = "summary" /\ last.op = "set_value" /\ last.labels = Le1
    /\ last.err = "none"
    /\ GetValue(summary_values, Le1).found
    /\ ~GetValue(histogram_values, Le1).found
    /\ const_labels["gauge"] = Le1

UpdateOps == {"set", "inc", "dec", "add", "sub", "observe"}

\* C15: an update that raises leaves the values of every collector as they
\* were: no series is created and none is changed.
C15_FailedUpdateNoChange ==
    [][(last'.coll \in Kinds /\ last'.op \in UpdateOps /\ last'.err # "none") =>
          stores' = stores]_vars

\* C16: a successful update of collector C with labels L changes the series
\* of C under the key of L and nothing else: the other series of C, the
\* series of the other collectors, the const_labels and the registry stay as
\* they were.
C16_UpdateFrame ==
    [][\A C \in Kinds :
          (last'.coll = C /\ last'.op \in UpdateOps /\ last'.err = "none") =>
             LET key == KeyTransform(last'.labels).key IN
             /\ DOMAIN ValuesOf(C)' = DOMAIN ValuesOf(C) \cup {key}
             /\ \A k \in DOMAIN ValuesOf(C) \ {key} : ValuesOf(C)'[k] = ValuesOf(C)[k]
             /\ \A D \in Kinds \ {C} : ValuesOf(D)' = ValuesOf(D)
             /\ rest' = rest]_vars

\* the gauge holds two series and the last call changed one of them
C16_Witness ==
    /\ last.coll = "gauge" /\ last.op = "sub" /\ last.err = "none" /\ last.labels = B1
    /\ GetValue(gauge_values, A1).found /\ Stored(gauge_values, A1) = 2
    /\ Stored(gauge_values, B1) = -2
    /\ GetValue(counter_values, A1).found

\* the sum of the values the threads that returned from add on coll added
RECURSIVE Added(_, _)
Added(coll, ts) ==
    IF ts = {} THEN 0
    ELSE LET t == CHOOSE x \in ts : TRUE IN
         (IF threads[t].coll = coll /\ threads[t].pc = "done" THEN threads[t].value ELSE 0)
            + Added(coll, ts \ {t})

\* C17: once every thread has returned from its call of add, the series holds
\* the value it had before the threads started (0 when it did not exist) plus
\* the sum of the values added, whatever the interleaving of the reads and
\* the writes of the calls was.
C17_NoLostUpdate ==
    (\A t \in Threads : threads[t].pc \in {"done", "raised"}) =>
        \A coll \in {"counter", "gauge"} :
            (\E t \in Threads : threads[t].coll = coll /\ threads[t].pc = "done") =>
                Stored(ValuesOf(coll), ThreadLabels) =
                    Entry(coll, ThreadLabels).base + Added(coll, Threads)

\* C12: register(c) succeeds exactly when no collector of the name of c is
\* registered; a registration that fails with "already registered" leaves the
\* registry and every series as they were, a successful one adds c as the
\* last entry; so a name deregistered can be registered again, and no two
\* registered collectors ever share a name.
C12_RegisterUnique ==
    /\ [](\A i, j \in 1..Len(collectors) : collectors[i].name = collectors[j].name => i = j)
    /\ [][(last'.coll = "registry" /\ last'.op = "register" /\ IsCollector(last'.value)) =>
            /\ last'.err = "none" <=> last'.value.name \notin Names(collectors)
            /\ last'.err # "none" =>
                  /\ last'.err = "ValueError"
                  /\ collectors' = collectors
                  /\ stores' = stores
            /\ last'.err = "none" => collectors' = Append(collectors, last'.value)]_vars

\* the counter was deregistered and the gauge of the same name registered
C12_Witness ==
    /\ last.coll = "registry" /\ last.op = "register" /\ last.err = "none"
    /\ last.value = TwinObj
    /\ \E i \in 1..Len(collectors) : collectors[i] = TwinObj
    /\ \A i \in 1..Len(collectors) : collectors[i] # CounterObj

\* C13: deregister(name) and get(name) fail with KeyError exactly when the
\* name is not registered and leave the registry as it was; a successful
\* deregister removes the entry of that name and no other, and leaves every
\* series, those of the removed collector included, as it was.
C13_DeregisterFrame ==
    [][(last'.coll = "registry" /\ last'.op \in {"deregister", "get"}) =>
          /\ last'.err = "KeyError" <=> last'.value \notin Names(collectors)
          /\ last'.err \in {"none", "KeyError"}
          /\ stores' = stores
          /\ (last'.err = "KeyError" \/ last'.op = "get") => collectors' = collectors
          /\ (last'.err = "none" /\ last'.op = "deregister") =>
                /\ Len(collectors') = Len(collectors) - 1
                /\ collectors' = SelectSeq(collectors, LAMBDA o : o.name # last'.value)]_vars

\* the counter, which holds a series, was deregistered
C13_Witness ==
    /\ last.coll = "registry" /\ last.op = "deregister" /\ last.err = "none"
    /\ last.value = "test_counter"
    /\ GetValue(counter_values, AB12).found
    /\ Len(collectors) = 3

FormatObjects == {CounterObj, GaugeObj, SummaryObj, HistogramObj}

\* the lines the formatter emits for the series of a collector, series by series
Emitted(obj) == SeriesLines(obj, key_order[obj.kind])

\* the number of lines of a series that carry a label of the formatter (le
\* or quantile) beside the labels of the series
Special(obj, lines) ==
    CASE obj.kind = "histogram" -> Len(lines) - 2
      [] obj.kind = "summary" -> Len(lines) - 2
      [] OTHER -> 0

SpecialName(obj) == IF obj.kind = "histogram" THEN "le" ELSE "quantile"

\* C18: every sample line is rendered with the union of the const_labels and
\* the labels of its series (with le or quantile on a bucket or quantile
\* line), the value of the series for a name both have, in ascending order
\* of the label names; a line whose union is empty carries no braces.
C18_MergedSortedLabels ==
    \A obj \in FormatObjects : \A i \in 1..Len(Emitted(obj)) :
        LET lines == Emitted(obj)[i]
            series == DecodeKey(key_order[obj.kind][i])
            const == const_labels[obj.kind].items
        IN  \A j \in 1..Len(lines) :
            LET line == lines[j]
                extra == IF j <= Special(obj, lines) THEN {SpecialName(obj)} ELSE {}
            IN  /\ ItemNames(line.labels) = ItemNames(const) \cup ItemNames(series) \cup extra
                /\ \A n \in ItemNames(line.labels) \ extra :
                      ItemValue(line.labels, n) =
                          IF n \in ItemNames(series) THEN ItemValue(series, n)
                          ELSE ItemValue(const, n)
                /\ \A p, q \in 1..Len(line.labels) :
                      p < q => NameRank(line.labels[p].name) < NameRank(line.labels[q].name)
                /\ line.text =
                      IF Len(line.labels) = 0 THEN line.name \o " " \o line.value
                      ELSE line.name \o "{" \o JoinLabels(line.labels) \o "} " \o line.value

\* the registry was marshalled; the series {a: 1} of the histogram has the
\* const_labels {z: 9, a: c}, and the gauge a series without labels
C18_Witness ==
    /\ last.coll = "formatter" /\ last.op = "marshall" /\ last.err = "none"
    /\ const_labels["histogram"] = ConstAZ
    /\ Len(key_order["histogram"]) = 1
    /\ Emitted(HistogramObj)[1][1].text = "test_histogram_bucket{a=\"1\",le=\"1.0\",z=\"9\"} 1.0"
    /\ GetValue(gauge_values, B1).found

\* the bucket lines of a histogram series: ascending bounds, +Inf last
BucketLines(lines, h, name) ==
    /\ Len(lines) = Len(h.bounds) + 2
    /\ \A j \in 1..Len(h.bounds) :
          /\ lines[j].name = name \o "_bucket"
          /\ ItemValue(lines[j].labels, "le").text = BoundText(h.bounds[j])
    /\ \A j \in 1..(Len(h.bounds) - 1) : Lt(h.bounds[j], h.bounds[j + 1])
    /\ ItemValue(lines[Len(h.bounds)].labels, "le").text = "+Inf"

\* the quantile lines of a summary series
QuantileLines(lines, name) ==
    /\ Len(lines) = 5
    /\ \A j \in 1..3 : lines[j].name = name /\ "quantile" \in ItemNames(lines[j].labels)

\* the series of a collector: first the bucket or quantile lines, then the
\* line named with the suffix first, then the one named with the suffix second
SeriesLayout(first, second) ==
    /\ \A i \in 1..Len(Emitted(HistogramObj)) :
          LET lines == Emitted(HistogramObj)[i]
              h == histogram_values[key_order["histogram"][i]]
          IN  /\ BucketLines(lines, h, HistogramObj.name)
              /\ lines[Len(lines) - 1].name = HistogramObj.name \o first
              /\ lines[Len(lines)].name = HistogramObj.name \o second
    /\ \A i \in 1..Len(Emitted(SummaryObj)) :
          LET lines == Emitted(SummaryObj)[i] IN
              /\ QuantileLines(lines, SummaryObj.name)
              /\ lines[Len(lines) - 1].name = SummaryObj.name \o first
              /\ lines[Len(lines)].name = SummaryObj.name \o second

Orders(keys) ==
    {o \in [1..Len(keys) -> {keys[i] : i \in 1..Len(keys)}] :
        \A p, q \in 1..Len(keys) : o[p] = o[q] => p = q}

LineSet(lines) == {lines[i].text : i \in 1..Len(lines)}

Heads(obj) == [i \in 1..Len(Emitted(obj)) |-> Emitted(obj)[i][Len(Emitted(obj)[i])].labels]

\* the rendered labels of the series under the keys of order
HeadsIn(order, const) == [i \in 1..Len(order) |-> UnifyLabels(DecodeKey(order[i]), const.items)]

C21_RegistrationOrder ==
    /\ []((\A i \in 1..Len(collectors) : collectors[i].kind \in Kinds) =>
            \A order \in Orders(collectors) : MarshallText(order) = MarshallText(collectors))
    /\ [][(last.op = "marshall" /\ last'.op = "marshall") => last'.ret = last.ret]_vars

\* the counter was registered again after the others and the registry marshalled
C21_Witness ==
    /\ last.coll = "formatter" /\ last.op = "marshall" /\ last.err = "none"
    /\ Len(collectors) = 4 /\ collectors[4] = CounterObj
    /\ last.ret = <<MarshallText(<<CounterObj, GaugeObj, HistogramObj, SummaryObj>>)>>

\* the blocks of the registry in the order marshall joins them
Blocks(reg) == [i \in 1..Len(reg) |-> MarshallCollector(SortedByName(reg)[i])]

\* C22: the bytes marshall returns end with a newline, for every registry.
C22_FinalNewline ==
    (last.op = "marshall" /\ last.err = "none") =>
        last.ret = <<JoinLines(Blocks(collectors)) \o "\n">>

\* C22, as the code has it: for a registry that holds a collector the bytes
\* are the sorted blocks joined by newlines and a final newline; for an empty
\* registry they are empty.
C22_FinalNewlineUnlessEmpty ==
    (last.op = "marshall" /\ last.err = "none") =>
        last.ret = IF Len(collectors) = 0 THEN <<"">>
                   ELSE <<JoinLines(Blocks(collectors)) \o "\n">>

\* a registry of four collectors, one with a series, was marshalled
C22_Witness ==
    /\ last.coll = "formatter" /\ last.op = "marshall" /\ last.err = "none"
    /\ Len(collectors) = 4
    /\ GetValue(counter_values, A1).found

\* C23: when the registry holds a collector that is not a Counter, Gauge,
\* Summary or Histogram, marshall raises TypeError 'Not a valid object
\* format' and returns nothing; register accepts such a collector.
C23_UnsupportedAborts ==
    /\ (last.op = "marshall" /\ \E i \in 1..Len(collectors) : collectors[i].kind \notin Kinds) =>
          /\ last.err = "TypeError" /\ last.msg = "Not a valid object format"
          /\ last.ret = <<>>
    /\ (last.op = "register" /\ last.value = BaseObj /\ last.err = "none") =>
          \E i \in 1..Len(collectors) : collectors[i] = BaseObj

\* a base Collector was registered beside the four collectors and marshall raised
C23_Witness ==
    /\ last.coll = "formatter" /\ last.op = "marshall" /\ last.err = "TypeError"
    /\ Len(collectors) = 5 /\ collectors[5] = BaseObj

\* C25: for count >= 1, start > 0 and factor > 1, exponentialBuckets returns
\* count bounds, the first is start and each next one is factor times the one
\* before it.
C25_ExponentialBuckets ==
    LET start == last.value[1]
        factor == last.value[2]
        count == last.value[3] IN
    (last.op = "exponentialBuckets" /\ count >= 1 /\ start > 0 /\ factor > 1) =>
        /\ last.err = "none"
        /\ Len(last.ret) = count
        /\ last.ret[1] = start
        /\ \A i \in 2..count : last.ret[i] = factor * last.ret[i - 1]

\* the invocations of a callable decorated with deco that are at pc
TasksAt(deco, pcs) == {i \in 1..Len(tasks) : tasks[i].deco = deco /\ tasks[i].pc \in pcs}

\* the value of the series of the decorator's labels, 0 while it does not exist
SeriesOr0(store) ==
    IF GetValue(store, DecoratorLabels).found THEN Stored(store, DecoratorLabels) ELSE 0

\* C26: the gauge of inprogress equals the number of invocations in
\* progress, sync or async, however they interleave and however they end; it
\* is 0 whenever none is in progress.
C26_InProgress ==
    SeriesOr0(gauge_values) = Cardinality(TasksAt("inprogress", {"running"}))

\* C27: the counter of count_exceptions equals the number of invocations
\* that raised an Exception, the exception reaches the caller, an invocation
\* that returns leaves the counter alone, and the series exists only once an
\* invocation raised an Exception.
C27_CountExceptions ==
    LET raised == {i \in TasksAt("count_exceptions", {"raised"}) : IsException(tasks[i].exc)} IN
    /\ SeriesOr0(counter_values) = Cardinality(raised)
    /\ GetValue(counter_values, DecoratorLabels).found <=> raised # {}
    /\ \A i \in TasksAt("count_exceptions", {"raised"}) : tasks[i].exc # ""
    /\ (last.coll = "count_exceptions" /\ last.op = "complete") =>
           (last.err = "none" <=> tasks[last.value].pc = "returned")

\* an invocation raised an Exception and was counted while another one is
\* still in progress
C27_Witness ==
    /\ Len(tasks) = 2
    /\ \E i, j \in 1..2 :
          /\ tasks[i].deco = "count_exceptions" /\ tasks[i].kind = "async"
          /\ tasks[i].pc = "raised" /\ tasks[i].exc = "Exception"
          /\ tasks[j].deco = "count_exceptions" /\ tasks[j].pc = "running"
    /\ SeriesOr0(counter_values) = 1

\* the service runs: its site accepts connections
Running == service.listening

\* C28: start() on a running service and stop() on a stopped service change
\* nothing and log a warning; base_url, root_url and metrics_url raise
\* 'No URL available, Prometheus metrics server is not running' exactly when
\* the service is not running, whatever start and stop calls came before.
C28_ServiceLifecycle ==
    /\ []((last.coll = "service" /\ last.op \in UrlProperties) =>
            ((last.err = "Exception" /\ last.msg = NOT_RUNNING) <=> ~Running))
    /\ [][/\ (last'.coll = "service" /\ last'.op = "start" /\ Running) =>
                (service' = service /\ last'.ret = Warning(ALREADY_RUNNING))
          /\ (last'.coll = "service" /\ last'.op = "stop" /\ ~Running) =>
                (service' = service /\ last'.ret = Warning(ALREADY_STOPPED))]_vars

\* C29: when start() raises, the service is stopped: the URL properties
\* raise 'not running', the next start() tries again instead of warning
\* 'already running', and stop() warns 'already stopped'.
C29_FailedStartStopped ==
    [][(last.coll = "service" /\ last.op = "start" /\ last.err # "none") =>
          /\ (last'.op \in UrlProperties) =>
                (last'.err = "Exception" /\ last'.msg = NOT_RUNNING)
          /\ (last'.op = "start") => last'.ret # Warning(ALREADY_RUNNING)
          /\ (last'.op = "stop") => last'.ret = Warning(ALREADY_STOPPED)]_vars

\* the value of a series of a counter of the middleware, 0 while it does not exist
CountOf(store, L) == IF GetValue(store, L).found THEN Stored(store, L) ELSE 0

\* the four default counters of the middleware
DefaultCounters(m) == <<m.requests, m.responses, m.exceptions, m.status_codes>>

\* C30: for every (method, path), responses_total_counter is at most
\* requests_total_counter; one http request on a path that is not excluded
\* adds 1 to requests_total_counter and at most 1 to responses_total_counter
\* and to status_codes_counter, also when the application raises after it
\* sent 'http.response.start'; a request on an excluded path or of another
\* scope type changes none of the four counters.
C30_ResponsesAtMostRequests ==
    /\ [](/\ \A method \in Methods, path \in Paths :
                CountOf(middleware.responses, RequestLabels(method, path))
                    <= CountOf(middleware.requests, RequestLabels(method, path))
          /\ \A i \in 1..Len(middleware.inflight) :
                /\ middleware.inflight[i].nresponses <= 1
                /\ middleware.inflight[i].nstatus <= 1)
    /\ [][/\ (last'.coll = "middleware" /\ last'.op = "call") =>
                LET req == last'.value
                    L == RequestLabels(req.method, req.path) IN
                IF req.monitored
                THEN CountOf(middleware'.requests, L) = CountOf(middleware.requests, L) + 1
                ELSE DefaultCounters(middleware') = DefaultCounters(middleware)
          /\ (last'.coll = "middleware" /\ last'.op \in {"send", "return", "raise"}) =>
                LET i == IF last'.op = "send" THEN last'.value[1] ELSE last'.value IN
                /\ middleware'.requests = middleware.requests
                /\ ~middleware.inflight[i].monitored =>
                      DefaultCounters(middleware') = DefaultCounters(middleware)]_vars

====
